---- MODULE Spec2Model ----
(***************************************************************************)
(* Model of the 3D-printing calculators of src/js/functions.js (the last   *)
(* revision of the file, src/unnamed/part_001; a later function            *)
(* declaration of the same name replaces the earlier ones).                *)
(*                                                                         *)
(* Texts (the .value of an input, the output of toFixed, the text shown in *)
(* an element) are sequences of one-character strings.  A JavaScript       *)
(* number is a record [kind, n, d]: NaN, +Infinity / -Infinity, or the     *)
(* finite value n / d in lowest terms.  Arithmetic on finite values is     *)
(* exact: the representation error of binary doubles is not modelled, and  *)
(* neither is the sign of zero.  toFixed rounds the exact value half away  *)
(* from zero, as ECMAScript's Number.prototype.toFixed does with the exact *)
(* value of the double.                                                    *)
(***************************************************************************)
EXTENDS Integers, Sequences, FiniteSets, TLC

VARIABLES
    page,      \* which calculator page is loaded
    field,     \* id of a text input  |-> its .value (a text)
    radio,     \* name of a radio group |-> value of the checked input
    walls,     \* 1..20 |-> .value of the inputs wall1_1 .. wall4_5
    el,        \* id of an output element |-> [text, hidden]
    norm,      \* the normalizer's harness: input, places, results
    fresh,     \* TRUE iff the last step was a calculator's run, so that the
               \* outputs are those of the inputs as they stand
    localStorage,  \* the value stored under the key "theme"
    tabs,          \* tab |-> its document: loaded, root classes, storage
                   \* events waiting for its listener, toggles made
    prefersDark    \* matchMedia("(prefers-color-scheme: dark)").matches

vars == <<page, field, radio, walls, el, norm, fresh, localStorage, tabs,
          prefersDark>>

----------------------------------------------------------------------------
(* Bounds of the model *)

\* decimalPlaces ranges over 0..MaxPlaces
MaxPlaces == 3
\* Number::toString is cut after this many fractional digits (17 significant
\* digits in the engine)
NumberDigits == 4
\* at most this many wall inputs differ from the value the grid was filled with
MaxEdits == 1
\* each tab toggles the theme at most this many times
MaxToggles == 2
\* the key is removed from outside only while every tab has fewer than this
\* many storage events waiting
MaxPending == 1

----------------------------------------------------------------------------
(* Texts *)

Digits == <<"0", "1", "2", "3", "4", "5", "6", "7", "8", "9">>

IsDigit(c) == \E i \in 1..10 : Digits[i] = c

DigitVal(c) == (CHOOSE i \in 1..10 : Digits[i] = c) - 1

WhiteSpace == {" "}

InfinityText == <<"I", "n", "f", "i", "n", "i", "t", "y">>

NaNText == <<"N", "a", "N">>

RECURSIVE Pow10(_)
Pow10(k) == IF k = 0 THEN 1 ELSE 10 * Pow10(k - 1)

RECURSIVE GCD(_, _)
GCD(a, b) == IF b = 0 THEN a ELSE GCD(b, a % b)

Abs(a) == IF a < 0 THEN -a ELSE a

\* the decimal digits of a natural number, without leading zeros
RECURSIVE NatText(_)
NatText(n) == IF n < 10 THEN <<Digits[n + 1]>>
              ELSE Append(NatText(n \div 10), Digits[(n % 10) + 1])

\* the natural number m written with exactly k digits
RECURSIVE PadText(_, _)
PadText(m, k) == IF k = 0 THEN <<>>
                 ELSE Append(PadText(m \div 10, k - 1), Digits[(m % 10) + 1])

----------------------------------------------------------------------------
(* JavaScript numbers *)

NaN == [kind |-> "NaN", n |-> 0, d |-> 1]

PosInf == [kind |-> "Inf", n |-> 1, d |-> 1]

NegInf == [kind |-> "Inf", n |-> -1, d |-> 1]

\* the finite number a / b (b # 0), in lowest terms with a positive denominator
Fin(a, b) ==
    LET g == GCD(Abs(a), Abs(b))
        s == IF b < 0 THEN -1 ELSE 1
    IN  [kind |-> "Fin", n |-> s * (a \div g), d |-> s * (b \div g)]

IsNaN(x) == x.kind = "NaN"

IsFin(x) == x.kind = "Fin"

Sign(x) == IF x.n < 0 THEN -1 ELSE IF x.n > 0 THEN 1 ELSE 0

JsNeg(x) == IF IsNaN(x) THEN NaN ELSE [x EXCEPT !.n = -x.n]

\* x + y
JsAdd(x, y) ==
    IF IsNaN(x) \/ IsNaN(y) THEN NaN
    ELSE IF IsFin(x) /\ IsFin(y) THEN Fin(x.n * y.d + y.n * x.d, x.d * y.d)
    ELSE IF IsFin(x) THEN y
    ELSE IF IsFin(y) THEN x
    ELSE IF x.n = y.n THEN x ELSE NaN

\* x - y
JsSub(x, y) == JsAdd(x, JsNeg(y))

\* x * y
JsMul(x, y) ==
    IF IsNaN(x) \/ IsNaN(y) THEN NaN
    ELSE IF IsFin(x) /\ IsFin(y) THEN Fin(x.n * y.n, x.d * y.d)
    ELSE IF Sign(x) = 0 \/ Sign(y) = 0 THEN NaN
    ELSE IF Sign(x) = Sign(y) THEN PosInf ELSE NegInf

\* x / y
JsDiv(x, y) ==
    IF IsNaN(x) \/ IsNaN(y) THEN NaN
    ELSE IF IsFin(x) /\ IsFin(y) THEN
        IF y.n # 0 THEN Fin(x.n * y.d, x.d * y.n)
        ELSE IF x.n = 0 THEN NaN
        ELSE IF x.n > 0 THEN PosInf ELSE NegInf
    ELSE IF IsFin(y) THEN (IF Sign(x) * Sign(y) < 0 THEN NegInf ELSE PosInf)
    ELSE IF IsFin(x) THEN Fin(0, 1)
    ELSE NaN

\* x < y (false when either is NaN)
JsLess(x, y) ==
    /\ ~IsNaN(x)
    /\ ~IsNaN(y)
    /\ IF IsFin(x) /\ IsFin(y) THEN x.n * y.d < y.n * x.d
       ELSE IF IsFin(x) THEN y.n > 0
       ELSE IF IsFin(y) THEN x.n < 0
       ELSE x.n < y.n

\* x == y of JavaScript (NaN equals nothing)
JsEq(x, y) == ~IsNaN(x) /\ ~IsNaN(y) /\ x = y

----------------------------------------------------------------------------
(* parseFloat, Number::toString, toFixed *)

\* the first index >= i of s that holds no white space
RECURSIVE SkipWhite(_, _)
SkipWhite(s, i) ==
    IF i <= Len(s) /\ s[i] \in WhiteSpace THEN SkipWhite(s, i + 1) ELSE i

\* the first index >= i of s that holds no digit
RECURSIVE SkipDigits(_, _)
SkipDigits(s, i) ==
    IF i <= Len(s) /\ IsDigit(s[i]) THEN SkipDigits(s, i + 1) ELSE i

\* the value of the digits s[i..j-1]
RECURSIVE DigitsValue(_, _, _)
DigitsValue(s, i, j) ==
    IF j <= i THEN 0 ELSE 10 * DigitsValue(s, i, j - 1) + DigitVal(s[j - 1])

HasPrefixAt(s, i, t) ==
    /\ i + Len(t) - 1 <= Len(s)
    /\ \A k \in 1..Len(t) : s[i + k - 1] = t[k]

\* the number written by the longest decimal literal (or Infinity) that
\* starts s at index i1, negated when neg; NaN when there is none
StrDecimalLiteral(s, i1, neg) ==
    LET i2 == SkipDigits(s, i1)
        dot == i2 <= Len(s) /\ s[i2] = "."
        i3 == IF dot THEN SkipDigits(s, i2 + 1) ELSE i2
        fl == IF dot THEN i3 - (i2 + 1) ELSE 0
        ip == DigitsValue(s, i1, i2)
        fp == IF dot THEN DigitsValue(s, i2 + 1, i3) ELSE 0
        mag == Fin(ip * Pow10(fl) + fp, Pow10(fl))
    IN  IF HasPrefixAt(s, i1, InfinityText) THEN (IF neg THEN NegInf ELSE PosInf)
        ELSE IF (i2 - i1) + fl = 0 THEN NaN
        ELSE IF neg THEN JsNeg(mag) ELSE mag

\* a parseFloat that takes the empty (or blank) text for 0, as Number() does
ParseFloat_EmptyIsZero(s) ==
    LET i0 == SkipWhite(s, 1)
        neg == i0 <= Len(s) /\ s[i0] = "-"
        i1 == IF i0 <= Len(s) /\ s[i0] \in {"-", "+"} THEN i0 + 1 ELSE i0
    IN  IF i0 > Len(s) THEN Fin(0, 1) ELSE StrDecimalLiteral(s, i1, neg)

\* parseFloat(s) for a text s: leading white space is skipped, an optional
\* sign is read, then the longest prefix that is a decimal literal
ParseFloat(s) ==
    LET i0 == SkipWhite(s, 1)
        neg == i0 <= Len(s) /\ s[i0] = "-"
        i1 == IF i0 <= Len(s) /\ s[i0] \in {"-", "+"} THEN i0 + 1 ELSE i0
    IN  StrDecimalLiteral(s, i1, neg)

\* the fractional digits of r / d (0 <= r < d), at most k of them, stopping
\* when the expansion ends
RECURSIVE FracText(_, _, _)
FracText(r, d, k) ==
    IF r = 0 \/ k = 0 THEN <<>>
    ELSE <<Digits[((10 * r) \div d) + 1]>> \o FracText((10 * r) % d, d, k - 1)

\* a String(x) that keeps one fractional digit only
NumberToString_OneDigit(x) ==
    IF IsNaN(x) THEN NaNText
    ELSE IF ~IsFin(x) THEN (IF x.n < 0 THEN <<"-">> ELSE <<>>) \o InfinityText
    ELSE LET a == Abs(x.n)
             frac == FracText(a % x.d, x.d, 1)
             mag == NatText(a \div x.d) \o
                    (IF frac = <<>> THEN <<>> ELSE <<".">> \o frac)
         IN  IF x.n < 0 /\ mag # <<"0">> THEN <<"-">> \o mag ELSE mag

\* String(x) for a number x
NumberToString(x) ==
    IF IsNaN(x) THEN NaNText
    ELSE IF ~IsFin(x) THEN (IF x.n < 0 THEN <<"-">> ELSE <<>>) \o InfinityText
    ELSE LET a == Abs(x.n)
             frac == FracText(a % x.d, x.d, NumberDigits)
             mag == NatText(a \div x.d) \o
                    (IF frac = <<>> THEN <<>> ELSE <<".">> \o frac)
         IN  IF x.n < 0 /\ mag # <<"0">> THEN <<"-">> \o mag ELSE mag

\* x.toFixed(p): the decimal with exactly p fractional digits nearest to x,
\* the larger in magnitude of two equally near
ToFixed(x, p) ==
    IF IsNaN(x) THEN NaNText
    ELSE IF ~IsFin(x) THEN (IF x.n < 0 THEN <<"-">> ELSE <<>>) \o InfinityText
    ELSE LET a == Abs(x.n)
             f0 == (2 * (a % x.d) * Pow10(p) + x.d) \div (2 * x.d)
             carry == IF f0 = Pow10(p) THEN 1 ELSE 0
             ip == (a \div x.d) + carry
             fp == IF carry = 1 THEN 0 ELSE f0
             mag == NatText(ip) \o
                    (IF p = 0 THEN <<>> ELSE <<".">> \o PadText(fp, p))
         IN  IF x.n < 0 THEN <<"-">> \o mag ELSE mag

\* normalizeNumber(value, decimalPlaces) for a text value; parseFloat converts
\* a number it is given to its text first, so a caller that passes a number
\* x passes NumberToString(x)
NormalizeNumber(value, decimalPlaces) ==
    ParseFloat(ToFixed(ParseFloat(value), decimalPlaces))

----------------------------------------------------------------------------
(* Math.atan *)

Num(k) == Fin(k, 1)

\* (Math.atan(k / 100) * 180) / Math.PI in millionths of a degree, for
\* k = 0 .. 1000, at index k + 1
AtanMicroDeg ==
    <<
       0, 572939, 1145763, 1718358, 2290610, 2862405, 3433630, 4004173,
       4573921, 5142765, 5710593, 6277298, 6842773, 7406912, 7969610, 8530766,
       9090277, 9648045, 10203974, 10757967, 11309932, 11859779, 12407419, 12952765,
       13495733, 14036243, 14574216, 15109575, 15642246, 16172159, 16699244, 17223436,
       17744672, 18262890, 18778033, 19290046, 19798876, 20304474, 20806791, 21305784,
       21801409, 22293629, 22782406, 23267705, 23749494, 24227745, 24702430, 25173525,
       25641006, 26104854, 26565051, 27021582, 27474432, 27923590, 28369046, 28810794,
       29248826, 29683140, 30113733, 30540605, 30963757, 31383191, 31798913, 32210928,
       32619243, 33023868, 33424811, 33822085, 34215702, 34605676, 34992020, 35374752,
       35753887, 36129444, 36501441, 36869898, 37234834, 37596271, 37954231, 38308736,
       38659808, 39007473, 39351753, 39692673, 40030259, 40364537, 40695531, 41023269,
       41347777, 41669083, 41987212, 42302194, 42614056, 42922825, 43228530, 43531199,
       43830861, 44127543, 44421274, 44712084, 45000000, 45285051, 45567266, 45846674,
       46123303, 46397181, 46668337, 46936800, 47202598, 47465759, 47726311, 47984282,
       48239700, 48492593, 48742988, 48990913, 49236395, 49479460, 49720137, 49958451,
       50194429, 50428097, 50659482, 50888609, 51115504, 51340192, 51562699, 51783049,
       52001268, 52217379, 52431408, 52643378, 52853313, 53061237, 53267173, 53471145,
       53673174, 53873284, 54071498, 54267836, 54462322, 54654977, 54845822, 55034879,
       55222169, 55407711, 55591528, 55773638, 55954063, 56132821, 56309932, 56485417,
       56659293, 56831579, 57002295, 57171458, 57339087, 57505200, 57669814, 57832947,
       57994617, 58154839, 58313632, 58471012, 58626995, 58781597, 58934835, 59086724,
       59237280, 59386519, 59534455, 59681104, 59826480, 59970598, 60113473, 60255119,
       60395549, 60534779, 60672821, 60809688, 60945396, 61079956, 61213382, 61345686,
       61476881, 61606981, 61735996, 61863939, 61990823, 62116659, 62241459, 62365235,
       62487997, 62609758, 62730528, 62850318, 62969140, 63087003, 63203919, 63319897,
       63434949, 63549084, 63662312, 63774643, 63886087, 63996654, 64106353, 64215193,
       64323184, 64430335, 64536655, 64642152, 64746837, 64850716, 64953799, 65056095,
       65157611, 65258356, 65358338, 65457565, 65556045, 65653786, 65750796, 65847081,
       65942651, 66037511, 66131670, 66225135, 66317912, 66410010, 66501434, 66592193,
       66682292, 66771738, 66860538, 66948699, 67036227, 67123128, 67209409, 67295076,
       67380135, 67464592, 67548454, 67631725, 67714412, 67796521, 67878058, 67959028,
       68039436, 68119288, 68198591, 68277348, 68355565, 68433248, 68510401, 68587031,
       68663141, 68738737, 68813824, 68888406, 68962489, 69036077, 69109175, 69181788,
       69253920, 69325575, 69396759, 69467475, 69537728, 69607523, 69676863, 69745753,
       69814197, 69882199, 69949763, 70016893, 70083594, 70149869, 70215721, 70281156,
       70346176, 70410785, 70474988, 70538788, 70602188, 70665191, 70727803, 70790025,
       70851863, 70913318, 70974394, 71035095, 71095424, 71155385, 71214979, 71274212,
       71333086, 71391603, 71449768, 71507583, 71565051, 71622176, 71678959, 71735405,
       71791516, 71847294, 71902743, 71957866, 72012665, 72067144, 72121303, 72175148,
       72228679, 72281900, 72334814, 72387422, 72439728, 72491734, 72543442, 72594855,
       72645975, 72696806, 72747348, 72797605, 72847578, 72897271, 72946685, 72995823,
       73044687, 73093279, 73141601, 73189656, 73237446, 73284972, 73332237, 73379243,
       73425992, 73472486, 73518728, 73564718, 73610460, 73655954, 73701204, 73746210,
       73790975, 73835501, 73879789, 73923842, 73967661, 74011247, 74054604, 74097732,
       74140634, 74183310, 74225763, 74267995, 74310007, 74351801, 74393378, 74434740,
       74475889, 74516826, 74557553, 74598072, 74638384, 74678490, 74718392, 74758092,
       74797591, 74836891, 74875993, 74914898, 74953608, 74992125, 75030449, 75068583,
       75106527, 75144283, 75181853, 75219237, 75256437, 75293455, 75330291, 75366947,
       75403424, 75439724, 75475848, 75511797, 75547572, 75583174, 75618605, 75653867,
       75688959, 75723883, 75758641, 75793234, 75827662, 75861928, 75896031, 75929974,
       75963757, 75997381, 76030848, 76064158, 76097313, 76130314, 76163161, 76195856,
       76228400, 76260794, 76293039, 76325136, 76357085, 76388889, 76420547, 76452061,
       76483432, 76514661, 76545748, 76576695, 76607502, 76638171, 76668703, 76699097,
       76729356, 76759480, 76789470, 76819327, 76849051, 76878644, 76908107, 76937440,
       76966644, 76995720, 77024668, 77053490, 77082187, 77110759, 77139207, 77167532,
       77195734, 77223815, 77251774, 77279614, 77307334, 77334936, 77362420, 77389787,
       77417038, 77444172, 77471192, 77498098, 77524890, 77551570, 77578137, 77604593,
       77630938, 77657174, 77683300, 77709317, 77735226, 77761028, 77786723, 77812313,
       77837796, 77863176, 77888450, 77913622, 77938691, 77963657, 77988522, 78013285,
       78037949, 78062512, 78086976, 78111342, 78135610, 78159780, 78183853, 78207830,
       78231711, 78255497, 78279189, 78302786, 78326290, 78349701, 78373019, 78396246,
       78419381, 78442425, 78465379, 78488244, 78511019, 78533705, 78556303, 78578814,
       78601237, 78623573, 78645824, 78667988, 78690068, 78712062, 78733972, 78755799,
       78777542, 78799202, 78820780, 78842276, 78863691, 78885024, 78906277, 78927450,
       78948543, 78969557, 78990492, 79011349, 79032128, 79052829, 79073454, 79094001,
       79114473, 79134869, 79155189, 79175435, 79195605, 79215702, 79235725, 79255675,
       79275551, 79295356, 79315088, 79334748, 79354337, 79373854, 79393302, 79412679,
       79431986, 79451223, 79470392, 79489492, 79508523, 79527486, 79546382, 79565210,
       79583972, 79602666, 79621295, 79639858, 79658355, 79676787, 79695154, 79713456,
       79731694, 79749869, 79767979, 79786027, 79804012, 79821934, 79839794, 79857592,
       79875328, 79893003, 79910618, 79928171, 79945664, 79963098, 79980471, 79997785,
       80015040, 80032236, 80049373, 80066453, 80083474, 80100438, 80117344, 80134193,
       80150985, 80167721, 80184401, 80201025, 80217593, 80234106, 80250563, 80266966,
       80283314, 80299608, 80315848, 80332034, 80348167, 80364246, 80380272, 80396246,
       80412167, 80428036, 80443853, 80459618, 80475332, 80490995, 80506606, 80522167,
       80537678, 80553138, 80568548, 80583909, 80599220, 80614482, 80629694, 80644858,
       80659974, 80675041, 80690060, 80705031, 80719954, 80734830, 80749659, 80764441,
       80779176, 80793864, 80808507, 80823103, 80837653, 80852157, 80866617, 80881030,
       80895399, 80909723, 80924002, 80938237, 80952428, 80966575, 80980678, 80994737,
       81008753, 81022725, 81036655, 81050542, 81064386, 81078188, 81091948, 81105665,
       81119341, 81132975, 81146568, 81160119, 81173629, 81187098, 81200527, 81213915,
       81227263, 81240570, 81253838, 81267065, 81280253, 81293402, 81306511, 81319582,
       81332613, 81345605, 81358559, 81371475, 81384352, 81397191, 81409992, 81422756,
       81435481, 81448170, 81460821, 81473435, 81486012, 81498552, 81511056, 81523523,
       81535954, 81548349, 81560708, 81573031, 81585318, 81597570, 81609787, 81621968,
       81634114, 81646225, 81658302, 81670343, 81682351, 81694324, 81706263, 81718167,
       81730038, 81741876, 81753679, 81765449, 81777186, 81788890, 81800560, 81812198,
       81823803, 81835375, 81846915, 81858422, 81869898, 81881341, 81892752, 81904131,
       81915479, 81926795, 81938080, 81949333, 81960555, 81971747, 81982907, 81994036,
       82005135, 82016204, 82027241, 82038249, 82049227, 82060174, 82071092, 82081979,
       82092837, 82103666, 82114465, 82125235, 82135975, 82146687, 82157369, 82168023,
       82178648, 82189244, 82199812, 82210352, 82220863, 82231346, 82241801, 82252228,
       82262627, 82272999, 82283343, 82293659, 82303948, 82314210, 82324445, 82334652,
       82344833, 82354987, 82365114, 82375214, 82385288, 82395336, 82405357, 82415352,
       82425320, 82435263, 82445180, 82455071, 82464936, 82474776, 82484590, 82494379,
       82504142, 82513881, 82523594, 82533282, 82542945, 82552583, 82562197, 82571786,
       82581350, 82590890, 82600405, 82609897, 82619364, 82628807, 82638226, 82647621,
       82656992, 82666339, 82675663, 82684964, 82694240, 82703494, 82712724, 82721931,
       82731115, 82740276, 82749414, 82758529, 82767621, 82776691, 82785738, 82794762,
       82803765, 82812744, 82821702, 82830637, 82839550, 82848441, 82857311, 82866158,
       82874984, 82883788, 82892570, 82901331, 82910070, 82918788, 82927484, 82936160,
       82944814, 82953447, 82962059, 82970650, 82979221, 82987770, 82996299, 83004808,
       83013295, 83021763, 83030210, 83038636, 83047043, 83055429, 83063795, 83072141,
       83080467, 83088773, 83097059, 83105326, 83113573, 83121800, 83130008, 83138196,
       83146365, 83154514, 83162645, 83170756, 83178848, 83186921, 83194974, 83203009,
       83211025, 83219023, 83227001, 83234961, 83242902, 83250825, 83258729, 83266615,
       83274483, 83282332, 83290163, 83297976, 83305771, 83313548, 83321306, 83329047,
       83336770, 83344476, 83352163, 83359833, 83367485, 83375120, 83382737, 83390337,
       83397920, 83405485, 83413033, 83420564, 83428077, 83435574, 83443054, 83450516,
       83457962, 83465391, 83472803, 83480198, 83487577, 83494939, 83502285, 83509614,
       83516926, 83524223, 83531502, 83538766, 83546013, 83553245, 83560460, 83567659,
       83574842, 83582009, 83589160, 83596295, 83603415, 83610519, 83617607, 83624679,
       83631736, 83638777, 83645803, 83652813, 83659808, 83666788, 83673752, 83680701,
       83687635, 83694554, 83701458, 83708346, 83715220, 83722079, 83728923, 83735752,
       83742566, 83749365, 83756150, 83762920, 83769675, 83776416, 83783143, 83789855,
       83796552, 83803235, 83809904, 83816559, 83823199, 83829825, 83836437, 83843035,
       83849618, 83856188, 83862744, 83869286, 83875814, 83882328, 83888828, 83895315,
       83901788, 83908247, 83914693, 83921125, 83927544, 83933949, 83940340, 83946718,
       83953083, 83959435, 83965773, 83972098, 83978410, 83984709, 83990994, 83997267,
       84003526, 84009772, 84016006, 84022226, 84028434, 84034629, 84040811, 84046980,
       84053137, 84059281, 84065412, 84071531, 84077637, 84083731, 84089812, 84095880,
       84101937, 84107981, 84114012, 84120031, 84126038, 84132033, 84138016, 84143986,
       84149945, 84155891, 84161825, 84167748, 84173658, 84179556, 84185443, 84191318,
       84197180, 84203031, 84208871, 84214698, 84220514, 84226318, 84232111, 84237892,
       84243662, 84249420, 84255166, 84260902, 84266625, 84272338, 84278039, 84283728,
       84289407
    >>

\* (Math.atan(x) * 180) / Math.PI for x a multiple of 0.01 with |x| <= 10,
\* an infinity or NaN
MathAtanDeg(x) ==
    IF IsNaN(x) THEN NaN
    ELSE IF ~IsFin(x) THEN Num(90 * x.n)
    ELSE LET k == (Abs(x.n) * 100) \div x.d
         IN  Fin(Sign(x) * AtanMicroDeg[k + 1], 1000000)

----------------------------------------------------------------------------
(* The document: inputs, radio groups and output elements *)

\* the text of an element: which message it is and the value shown in it
Shown(msg, value) == [msg |-> msg, value |-> value]

NoText == Shown("", <<>>)

\* an element with its text and its hidden attribute
Element(text, hidden) == [text |-> text, hidden |-> hidden]

Cleared == Element(NoText, TRUE)

\* querySelector(...:checked) finds no checked input
NoneChecked == <<"(none)">>

OrcaValue == <<"orca">>

CuraValue == <<"cura">>

\* the sizes offered by the nozzle radio group
NozzleOptions ==
    { <<"0", ".", "2">>, <<"0", ".", "4">>, <<"0", ".", "6">>,
      <<"0", ".", "8">>, <<"1", ".", "0">> }

NoFields == [i \in {} |-> <<>>]

NoNorm == [x |-> <<>>, p |-> 0, stage |-> 0, r1 |-> NaN, r2 |-> NaN]

\* getItem gives null: nothing is stored under the key
JsNull == "(null)"

\* a calculator page taken alone: no theme stored, no tab followed
NoTheme ==
    /\ localStorage = JsNull
    /\ tabs = [t \in {} |-> {}]
    /\ prefersDark = FALSE

----------------------------------------------------------------------------
(* The normalizer on its own: normalizeNumber applied to an input, then to *)
(* its own result                                                          *)

\* texts that hold no decimal literal at their start
UnparsableTexts ==
    { <<>>, <<"a", "b", "c">>, <<".">>, <<"-">>, <<" ">>, <<"-", ".">>,
      <<"N", "a", "N">>, <<"e", "5">> }

\* texts that start with a decimal literal
NumericTexts ==
    { <<"0">>, <<"0", ".", "4">>, <<"0", ".", "4", "2">>,
      <<"0", ".", "4", "2", "4">>, <<"0", ".", "1", "2", "5">>,
      <<"1", ".", "0", "0", "5">>, <<"-", "0", ".", "2">>,
      <<"-", "0", ".", "1", "2", "5">>, <<"2", ".", "5">>,
      <<"0", ".", "9", "9", "9">>, <<"9", ".", "9", "9", "9", "5">>,
      <<"1", "2", "a", "b", "c">>, <<".", "5">>, <<"5", ".">>,
      <<" ", "1", ".", "5">>, <<"+", "3">>, <<"0", ".", "0", "0", "0", "4">>,
      <<"-", "0", ".", "0", "0", "1">>, <<"6", "0">>,
      InfinityText, <<"-">> \o InfinityText }

NormTexts == UnparsableTexts \cup NumericTexts

InitNorm ==
    /\ page = "norm"
    /\ field = NoFields
    /\ radio = NoFields
    /\ walls = NoFields
    /\ el = NoFields
    /\ fresh = FALSE
    /\ \E x \in NormTexts, p \in 0..MaxPlaces :
           norm = [x |-> x, p |-> p, stage |-> 0, r1 |-> NaN, r2 |-> NaN]
    /\ NoTheme

\* normalizeNumber(x, p)
NormalizeOnce ==
    /\ page = "norm"
    /\ norm.stage = 0
    /\ norm' = [norm EXCEPT !.stage = 1, !.r1 = NormalizeNumber(norm.x, norm.p)]
    /\ UNCHANGED <<page, field, radio, walls, el, fresh,
                 localStorage, tabs, prefersDark>>

\* normalizeNumber(normalizeNumber(x, p), p)
NormalizeAgain ==
    /\ page = "norm"
    /\ norm.stage = 1
    /\ norm' = [norm EXCEPT !.stage = 2, !.r2 = NormalizeNumber(NumberToString(norm.r1), norm.p)]
    /\ UNCHANGED <<page, field, radio, walls, el, fresh,
                 localStorage, tabs, prefersDark>>

NextNorm == NormalizeOnce \/ NormalizeAgain

SpecNorm == InitNorm /\ [][NextNorm]_vars

\* C1: normalizeNumber is idempotent: for every numeric input x and every
\* precision p, normalizeNumber(normalizeNumber(x, p), p) equals
\* normalizeNumber(x, p).
C1_NormalizeIdempotent ==
    (page = "norm" /\ norm.stage = 2 /\ norm.x \in NumericTexts)
        => JsEq(norm.r2, norm.r1)

\* 0.125 at two places has been rounded to 0.13 and normalized again
C1_Witness ==
    /\ page = "norm"
    /\ norm.stage = 2
    /\ norm.x = <<"0", ".", "1", "2", "5">>
    /\ norm.p = 2
    /\ norm.r1 = Fin(13, 100)
    /\ norm.r2 = Fin(13, 100)

\* C2: for every input that does not parse as a number (the empty text
\* included) normalizeNumber returns NaN: the call has a value, NaN, before
\* it is made, that value is what the call returned once it is made, and
\* the document is as it was.
C2_UnparsableGivesNaN ==
    (page = "norm" /\ norm.x \in UnparsableTexts)
        => /\ norm.stage = 0 => IsNaN(NormalizeNumber(norm.x, norm.p))
           /\ norm.stage >= 1 => IsNaN(norm.r1)
           /\ norm.stage = 2 => IsNaN(norm.r2)
           /\ field = NoFields /\ radio = NoFields /\ walls = NoFields
           /\ el = NoFields

\* the empty text has been normalized, to NaN
C2_Witness ==
    /\ page = "norm"
    /\ norm.stage = 1
    /\ norm.x = <<>>
    /\ IsNaN(norm.r1)

----------------------------------------------------------------------------
(* Critical extrusion angle (overhang) calculator                          *)

\* values typed into the layerHeight input
LayerHeightTexts ==
    { <<>>, <<"a", "b", "c">>, <<"0">>, <<"0", ".", "1">>, <<"0", ".", "2">>,
      <<"0", ".", "2", "5">>, <<"0", ".", "3">>, <<"0", ".", "4">>,
      <<"0", ".", "5">>, <<"0", ".", "1", "2", "4">>, <<"-", "0", ".", "2">> }

InitACE ==
    /\ page = "ace"
    /\ field = [i \in {"layerHeight"} |-> <<>>]
    /\ \E d \in NozzleOptions :
           radio = [g \in {"nozzleDiameter", "slicerSoftware"} |->
                       IF g = "nozzleDiameter" THEN d ELSE NoneChecked]
    /\ walls = NoFields
    /\ el = [i \in {"result"} |-> Cleared]
    /\ norm = NoNorm
    /\ fresh = FALSE
    /\ NoTheme

\* values typed into the layerHeight input of the volumetric calculator
VolHeightTexts ==
    { <<>>, <<"0">>, <<"0", ".", "2">>, <<"0", ".", "0", "5">>,
      <<"0", ".", "4">>, <<"0", ".", "3", "2">>, <<"0", ".", "0", "7", "6">> }

\* the user types a layer height
TypeLayerHeight ==
    /\ page \in {"ace", "vv"}
    /\ \E t \in (IF page = "ace" THEN LayerHeightTexts ELSE VolHeightTexts) :
           field' = [field EXCEPT !["layerHeight"] = t]
    /\ fresh' = FALSE
    /\ UNCHANGED <<page, radio, walls, el, norm,
                 localStorage, tabs, prefersDark>>

\* the user picks a nozzle size
SelectNozzle ==
    /\ page \in {"ace", "vv"}
    /\ \E d \in NozzleOptions : radio' = [radio EXCEPT !["nozzleDiameter"] = d]
    /\ fresh' = FALSE
    /\ UNCHANGED <<page, field, walls, el, norm,
                 localStorage, tabs, prefersDark>>

\* the user picks a slicer
SelectSlicer ==
    /\ page = "ace"
    /\ \E v \in {OrcaValue, CuraValue} :
           radio' = [radio EXCEPT !["slicerSoftware"] = v]
    /\ fresh' = FALSE
    /\ UNCHANGED <<page, field, walls, el, norm,
                 localStorage, tabs, prefersDark>>

\* an angle computed from h / w instead of h / (w / 2)
AngleDegrees_FullWidth(nozzleDiameter, layerHeight) ==
    LET extrusionWidth == nozzleDiameter
    IN  MathAtanDeg(NormalizeNumber(
                        NumberToString(JsDiv(layerHeight, extrusionWidth)), 2))

\* angleRad, in degrees:
\* (Math.atan(normalizeNumber(layerHeight / (extrusionWidth / 2))) * 180) / Math.PI
AngleDegrees(nozzleDiameter, layerHeight) ==
    LET extrusionWidth == nozzleDiameter
    IN  MathAtanDeg(NormalizeNumber(
                        NumberToString(
                            JsDiv(layerHeight, JsDiv(extrusionWidth, Num(2)))),
                        2))

\* normalizeNumber(90 - x), for x in degrees
Complement(x) == NormalizeNumber(NumberToString(JsSub(Num(90), x)), 2)

\* a validation that rejects only when both inputs are NaN
InvalidAngleInputs_Both(nozzleDiameter, layerHeight) ==
    IsNaN(nozzleDiameter) /\ IsNaN(layerHeight)

\* isNaN(nozzleDiameter) || isNaN(layerHeight)
InvalidAngleInputs(nozzleDiameter, layerHeight) ==
    IsNaN(nozzleDiameter) \/ IsNaN(layerHeight)

\* the result element showing text
ShowResult(text) == el' = [el EXCEPT !["result"] = Element(text, FALSE)]

\* each bound value is one const or let of the function
calculateCriticalExtrusionAngle ==
    /\ page = "ace"
    /\ \E nozzleDiameter \in {NormalizeNumber(radio["nozzleDiameter"], 1)},
          layerHeight \in {NormalizeNumber(field["layerHeight"], 2)},
          slicer \in {IF radio["slicerSoftware"] # NoneChecked
                      THEN radio["slicerSoftware"] ELSE OrcaValue} :
           IF InvalidAngleInputs(nozzleDiameter, layerHeight)
           THEN ShowResult(Shown("invalid", <<>>))
           ELSE \E angleDeg \in {AngleDegrees(nozzleDiameter, layerHeight)} :
                \E overhangAngle \in {Complement(angleDeg)} :
                    IF slicer = OrcaValue
                    THEN \E complement \in {Complement(overhangAngle)} :
                             ShowResult(Shown("orca", NumberToString(complement)))
                    ELSE ShowResult(Shown("cura", NumberToString(overhangAngle)))
    /\ fresh' = TRUE
    /\ UNCHANGED <<page, field, radio, walls, norm,
                 localStorage, tabs, prefersDark>>

NextACE == TypeLayerHeight \/ SelectNozzle \/ SelectSlicer
           \/ calculateCriticalExtrusionAngle

SpecACE == InitACE /\ [][NextACE]_vars

\* the angle shown in the result element, as a number
ShownAngle == ParseFloat(el["result"].text.value)

AngleShown == el["result"].text.msg \in {"orca", "cura"}

ExactAtanMicroDeg(n, d) ==
    CASE <<n, d>> = <<1, 3>> -> 18434949
      [] <<n, d>> = <<5, 8>> -> 32005383
      [] <<n, d>> = <<2, 3>> -> 33690068
      [] <<n, d>> = <<5, 6>> -> 39805571
      [] <<n, d>> = <<4, 3>> -> 53130102
      [] <<n, d>> = <<5, 3>> -> 59036243

\* 90 - degrees(atan(h / (d / 2))) to two decimals, the ratio not rounded
RawAngle(d, h) ==
    LET r == JsDiv(h, JsDiv(d, Num(2)))
        deg == IF IsFin(r) /\ 100 % r.d # 0
               THEN Fin(Sign(r) * ExactAtanMicroDeg(Abs(r.n), r.d), 1000000)
               ELSE MathAtanDeg(r)
    IN  ParseFloat(ToFixed(JsSub(Num(90), deg), 2))

\* C5: for numeric d and h the angle shown is 90 - rawAngle under orca and
\* rawAngle under any other slicer, rawAngle = 90 - degrees(atan(h / (d / 2))),
\* so that the two outputs for the same d and h sum to 90.
C5_AngleIsFormula ==
    (page = "ace" /\ fresh) =>
        LET d == NormalizeNumber(radio["nozzleDiameter"], 1)
            h == NormalizeNumber(field["layerHeight"], 2)
        IN  (~IsNaN(d) /\ ~IsNaN(h)) =>
                /\ AngleShown
                /\ IF radio["slicerSoftware"] = CuraValue
                   THEN ShownAngle = RawAngle(d, h)
                   ELSE ShownAngle = JsSub(Num(90), RawAngle(d, h))

\* C6: whenever the layer height is half the nozzle diameter, the angle
\* shown is exactly 45, under orca and under the other slicer.
C6_HalfNozzleGives45 ==
    (/\ page = "ace"
     /\ fresh
     /\ ~IsNaN(ParseFloat(field["layerHeight"]))
     /\ ParseFloat(field["layerHeight"])
            = JsDiv(ParseFloat(radio["nozzleDiameter"]), Num(2)))
        => /\ AngleShown
           /\ el["result"].text.value = <<"4", "5">>
           /\ ~el["result"].hidden

\* nozzle 0.4, layer height 0.2, orca: 45 is shown
C6_Witness ==
    /\ page = "ace"
    /\ fresh
    /\ radio["nozzleDiameter"] = <<"0", ".", "4">>
    /\ field["layerHeight"] = <<"0", ".", "2">>
    /\ radio["slicerSoftware"] = OrcaValue
    /\ el["result"] = Element(Shown("orca", <<"4", "5">>), FALSE)

\* C7: for numeric nozzle diameter and layer height, the angle shown is a
\* number from 0 to 90 degrees under both conventions.
C7_AngleInRange ==
    (page = "ace" /\ AngleShown)
        => /\ IsFin(ShownAngle)
           /\ ~JsLess(ShownAngle, Num(0))
           /\ ~JsLess(Num(90), ShownAngle)

----------------------------------------------------------------------------
(* Flow calibration calculator                                             *)

\* the wall inputs wall1_1 .. wall4_5, row by row
Rows == 4

Cols == 5

WallIds == 1..(Rows * Cols)

\* texts a grid of wall inputs is filled with, and texts typed over a cell
WallFillTexts == { <<>>, <<"0", ".", "4", "2">>, <<"0", ".", "4", "2", "4">> }

WallEditTexts == { <<>>, <<"0", ".", "7">> }

WidthTexts == { <<>>, <<"0", ".", "4">> }

FlowTexts == { <<>>, <<"1", "0", "0">> }

InitFlow ==
    /\ page = "fluxo"
    /\ field = [i \in {"extrusionWidthSlicer", "flowSlicer"} |-> <<>>]
    /\ radio = NoFields
    /\ \E b \in WallFillTexts : walls = [i \in WallIds |-> b]
    /\ el = [i \in {"result"} |-> Cleared]
    /\ norm = NoNorm
    /\ fresh = FALSE
    /\ NoTheme

\* the user types over one wall measurement
TypeWall ==
    /\ page = "fluxo"
    /\ \E b \in WallFillTexts :
           LET edited == {j \in WallIds : walls[j] # b}
           IN  /\ Cardinality(edited) <= MaxEdits
               /\ \E i \in WallIds, t \in WallEditTexts :
                      /\ Cardinality((edited \ {i}) \cup
                                     (IF t # b THEN {i} ELSE {})) <= MaxEdits
                      /\ walls' = [walls EXCEPT ![i] = t]
    /\ fresh' = FALSE
    /\ UNCHANGED <<page, field, radio, el, norm,
                 localStorage, tabs, prefersDark>>

\* the user types the extrusion width or the flow set in the slicer
TypeWidth ==
    /\ page = "fluxo"
    /\ \E t \in WidthTexts : field' = [field EXCEPT !["extrusionWidthSlicer"] = t]
    /\ fresh' = FALSE
    /\ UNCHANGED <<page, radio, walls, el, norm,
                 localStorage, tabs, prefersDark>>

TypeFlow ==
    /\ page = "fluxo"
    /\ \E t \in FlowTexts : field' = [field EXCEPT !["flowSlicer"] = t]
    /\ fresh' = FALSE
    /\ UNCHANGED <<page, radio, walls, el, norm,
                 localStorage, tabs, prefersDark>>

\* normalizeNumber(t) for each text t a wall input can hold
NormalizedWall ==
    [t \in WallFillTexts \cup WallEditTexts |-> NormalizeNumber(t, 2)]

\* a loop that reads the first input again in place of the last one
Measurements_FirstForLast(w) ==
    SelectSeq([i \in WallIds |->
                  NormalizedWall[w[IF i = Rows * Cols THEN 1 ELSE i]]],
              LAMBDA value : ~IsNaN(value))

\* the normalized wall values that are numbers, in the order of the inputs
Measurements(w) ==
    SelectSeq([i \in WallIds |-> NormalizedWall[w[i]]], LAMBDA value : ~IsNaN(value))

\* m[lo] + ... + m[hi], added by halves: the additions are exact, so their
\* grouping does not change the sum
RECURSIVE SumRange(_, _, _)
SumRange(m, lo, hi) ==
    IF lo > hi THEN Num(0)
    ELSE IF lo = hi THEN m[lo]
    ELSE LET mid == (lo + hi) \div 2
         IN  JsAdd(SumRange(m, lo, mid), SumRange(m, mid + 1, hi))

\* measurements.reduce((a, b) => a + b, 0)
SumMeasurements(m) == JsAdd(Num(0), SumRange(m, 1, Len(m)))

\* a check that only rejects an empty set of measurements
IncompleteMeasurements_Empty(measurements) == Len(measurements) = 0

\* measurements.length !== 20
IncompleteMeasurements(measurements) == Len(measurements) # 20

\* normalizeNumber(sumMeasurements / measurements.length)
AvgMeasurements(sumMeasurements, length) ==
    NormalizeNumber(NumberToString(JsDiv(sumMeasurements, Num(length))), 2)

\* a rule of three turned upside down
NewFlow_Inverted(extrusionWidth, avgMeasurements, configuredFlow) ==
    NormalizeNumber(
        NumberToString(
            JsMul(JsDiv(avgMeasurements, extrusionWidth), configuredFlow)), 2)

\* normalizeNumber((extrusionWidth / avgMeasurements) * configuredFlow)
NewFlow(extrusionWidth, avgMeasurements, configuredFlow) ==
    NormalizeNumber(
        NumberToString(
            JsMul(JsDiv(extrusionWidth, avgMeasurements), configuredFlow)), 2)

\* a check that rejects only when both width and flow are NaN
MissingFlowInputs_Both(extrusionWidth, configuredFlow) ==
    IsNaN(extrusionWidth) /\ IsNaN(configuredFlow)

\* isNaN(extrusionWidth) || isNaN(configuredFlow)
MissingFlowInputs(extrusionWidth, configuredFlow) ==
    IsNaN(extrusionWidth) \/ IsNaN(configuredFlow)

calculateNewFlow ==
    /\ page = "fluxo"
    /\ \E measurements \in {Measurements(walls)} :
           IF IncompleteMeasurements(measurements)
           THEN ShowResult(Shown("incomplete", <<>>))
           ELSE \E sumMeasurements \in {SumMeasurements(measurements)} :
                \E avgMeasurements \in {AvgMeasurements(sumMeasurements,
                                                        Len(measurements))},
                   extrusionWidth \in {NormalizeNumber(
                                           field["extrusionWidthSlicer"], 2)},
                   configuredFlow \in {NormalizeNumber(field["flowSlicer"], 2)} :
                    IF MissingFlowInputs(extrusionWidth, configuredFlow)
                    THEN ShowResult(Shown("missing", <<>>))
                    ELSE \E newFlow \in {NewFlow(extrusionWidth, avgMeasurements,
                                                 configuredFlow)} :
                             ShowResult(Shown("flow", NumberToString(newFlow)))
    /\ fresh' = TRUE
    /\ UNCHANGED <<page, field, radio, walls, norm,
                 localStorage, tabs, prefersDark>>

NextFlow == TypeWall \/ TypeWidth \/ TypeFlow \/ calculateNewFlow

SpecFlow == InitFlow /\ [][NextFlow]_vars

\* the wall inputs whose text parses as a number
ParsedWalls == {i \in WallIds : walls[i] \notin UnparsableTexts}

FlowInputsNumeric ==
    /\ field["extrusionWidthSlicer"] \notin UnparsableTexts
    /\ field["flowSlicer"] \notin UnparsableTexts

\* x to two decimals
Round2(x) == ParseFloat(ToFixed(x, 2))

\* the flow shown in the result element, as a number
ShownFlow == ParseFloat(el["result"].text.value)

\* C8: if fewer than 20 of the wall measurements parse as numbers, whatever
\* their number and positions, calculateNewFlow fails with the
\* incomplete-measurements message and shows no flow, whatever the extrusion
\* width and the configured flow are.
C8_FewerThan20GivesMessage ==
    (page = "fluxo" /\ fresh /\ Cardinality(ParsedWalls) < 20)
        => el["result"] = Element(Shown("incomplete", <<>>), FALSE)

\* 19 measurements parse, the seventh is blank, width and flow are numbers
C8_Witness ==
    /\ page = "fluxo"
    /\ fresh
    /\ Cardinality(ParsedWalls) = 19
    /\ walls[7] = <<>>
    /\ FlowInputsNumeric
    /\ el["result"] = Element(Shown("incomplete", <<>>), FALSE)

\* C9: for 20 numeric measurements and numeric width w and flow f, the flow
\* shown is (w / m) * f to two decimals, m the exact arithmetic mean of the
\* 20 measurements (not a rounded mean).
C9_FlowUsesExactMean ==
    (page = "fluxo" /\ fresh /\ Cardinality(ParsedWalls) = 20 /\ FlowInputsNumeric)
        => LET w == NormalizeNumber(field["extrusionWidthSlicer"], 2)
               f == NormalizeNumber(field["flowSlicer"], 2)
               m == JsDiv(SumMeasurements(Measurements(walls)), Num(20))
           IN  /\ el["result"].text.msg = "flow"
               /\ ShownFlow = Round2(JsMul(JsDiv(w, m), f))

\* all 20 wall inputs hold the same text, a number
AllWallsEqual ==
    /\ \A i \in WallIds : walls[i] = walls[1]
    /\ walls[1] \notin UnparsableTexts

\* C10 as stated: when all 20 measurements equal the same value x, the flow
\* shown is (w / x) * f to two decimals, x, w and f the values typed.
C10_AllEqualAsTyped ==
    (page = "fluxo" /\ fresh /\ AllWallsEqual /\ FlowInputsNumeric)
        => LET w == ParseFloat(field["extrusionWidthSlicer"])
               f == ParseFloat(field["flowSlicer"])
               x == ParseFloat(walls[1])
           IN  /\ el["result"].text.msg = "flow"
               /\ ShownFlow = Round2(JsMul(JsDiv(w, x), f))

\* C10 (amended): when all 20 measurements equal the same value, the flow
\* shown is (w / x) * f to two decimals, where x, w and f are the typed
\* values normalized to two decimals; for x = 0.42, w = 0.40, f = 100 it is
\* 95.24.
C10_AllEqualNormalized ==
    (page = "fluxo" /\ fresh /\ AllWallsEqual /\ FlowInputsNumeric)
        => LET w == NormalizeNumber(field["extrusionWidthSlicer"], 2)
               f == NormalizeNumber(field["flowSlicer"], 2)
               x == NormalizeNumber(walls[1], 2)
           IN  /\ el["result"].text.msg = "flow"
               /\ ~el["result"].hidden
               /\ ShownFlow = Round2(JsMul(JsDiv(w, x), f))
               /\ (x = Fin(42, 100) /\ w = Fin(40, 100) /\ f = Num(100))
                      => el["result"].text.value = <<"9", "5", ".", "2", "4">>

\* 20 times 0.42, width 0.4, flow 100: 95.24 is shown
C10_Witness ==
    /\ page = "fluxo"
    /\ fresh
    /\ \A i \in WallIds : walls[i] = <<"0", ".", "4", "2">>
    /\ field["extrusionWidthSlicer"] = <<"0", ".", "4">>
    /\ field["flowSlicer"] = <<"1", "0", "0">>
    /\ el["result"] = Element(Shown("flow", <<"9", "5", ".", "2", "4">>), FALSE)

\* the grid w with the values of inputs i and j exchanged
Swap(w, i, j) == [w EXCEPT ![i] = w[j], ![j] = w[i]]

\* text is what calculateNewFlow shows for the grid w and the width and flow
\* typed
FlowOutcomeIs(w, text) ==
    \E measurements \in {Measurements(w)} :
        IF IncompleteMeasurements(measurements)
        THEN text = Shown("incomplete", <<>>)
        ELSE \E sumMeasurements \in {SumMeasurements(measurements)} :
             \E avgMeasurements \in {AvgMeasurements(sumMeasurements,
                                                     Len(measurements))},
                extrusionWidth \in {NormalizeNumber(
                                        field["extrusionWidthSlicer"], 2)},
                configuredFlow \in {NormalizeNumber(field["flowSlicer"], 2)} :
                 IF MissingFlowInputs(extrusionWidth, configuredFlow)
                 THEN text = Shown("missing", <<>>)
                 ELSE \E newFlow \in {NewFlow(extrusionWidth, avgMeasurements,
                                              configuredFlow)} :
                          text = Shown("flow", NumberToString(newFlow))

C12_WidthFlowCheckedSecond ==
    (page = "fluxo" /\ fresh /\ ~FlowInputsNumeric)
        => /\ ~el["result"].hidden
           /\ el["result"].text =
                  IF Cardinality(ParsedWalls) = 20
                  THEN Shown("missing", <<>>)
                  ELSE Shown("incomplete", <<>>)

\* 20 measurements and the flow are numbers, the width is blank
C12_Witness ==
    /\ page = "fluxo"
    /\ fresh
    /\ Cardinality(ParsedWalls) = 20
    /\ field["extrusionWidthSlicer"] = <<>>
    /\ field["flowSlicer"] = <<"1", "0", "0">>
    /\ el["result"] = Element(Shown("missing", <<>>), FALSE)

----------------------------------------------------------------------------
(* Layer height (nozzle / layer proportion) calculator                     *)

\* values typed into the angle input
AngleTexts ==
    { <<>>, <<"a", "b", "c">>, <<"0">>, <<"0", ".", "9", "9", "6">>, <<"1">>,
      <<"1", ".", "0", "0", "4">>,
      <<"2", "1", ".", "8">>, <<"2", "5">>, <<"3", "0">>,
      <<"3", "0", ".", "5">>, <<"3", "2">>, <<"4", "5">>, <<"5", "8">>,
      <<"5", "9", ".", "5">>, <<"6", "0">>, <<"6", "5">>,
      <<"6", "8", ".", "2">>, <<"8", "9">>, <<"8", "9", ".", "0", "0", "4">>,
      <<"9", "0">> }

\* Math.tan(a * (Math.PI / 180)) in millionths, a in hundredths of a degree,
\* for the angles the texts above and their complements give
TanMicro ==
    (100 :> 17455) @@ (2180 :> 399971) @@ (2500 :> 466308)
    @@ (3000 :> 577350) @@ (3050 :> 589045) @@ (3200 :> 624869)
    @@ (4500 :> 1000000) @@ (5800 :> 1600335) @@ (5950 :> 1697663)
    @@ (6000 :> 1732051) @@ (6500 :> 2144507) @@ (6820 :> 2500178)
    @@ (8900 :> 57289962)

\* Math.tan(x * (Math.PI / 180)) for x in degrees
MathTanDeg(x) == Fin(TanMicro[(x.n * 100) \div x.d], 1000000)

\* Math.round(x) for a finite x
MathRound(x) == Num((2 * x.n + x.d) \div (2 * x.d))

\* Math.abs(x) for a finite x
MathAbs(x) == IF x.n < 0 THEN JsNeg(x) ELSE x

\* the page as loaded: a slicer and a nozzle are checked
InitPBC ==
    /\ page = "pbc"
    /\ field = [i \in {"angle"} |-> <<>>]
    /\ \E s \in {OrcaValue, CuraValue}, d \in NozzleOptions :
           radio = [g \in {"software", "nozzle"} |->
                       IF g = "software" THEN s ELSE d]
    /\ walls = NoFields
    /\ el = [i \in {"result", "suggestionMessage"} |-> Cleared]
    /\ norm = NoNorm
    /\ fresh = FALSE
    /\ NoTheme

\* the user types an angle
TypeAngle ==
    /\ page = "pbc"
    /\ \E t \in AngleTexts : field' = [field EXCEPT !["angle"] = t]
    /\ fresh' = FALSE
    /\ UNCHANGED <<page, radio, walls, el, norm,
                 localStorage, tabs, prefersDark>>

\* the user checks a slicer
SelectSoftware ==
    /\ page = "pbc"
    /\ \E s \in {OrcaValue, CuraValue} : radio' = [radio EXCEPT !["software"] = s]
    /\ fresh' = FALSE
    /\ UNCHANGED <<page, field, walls, el, norm,
                 localStorage, tabs, prefersDark>>

\* the user checks a nozzle
SelectPBCNozzle ==
    /\ page = "pbc"
    /\ \E d \in NozzleOptions : radio' = [radio EXCEPT !["nozzle"] = d]
    /\ fresh' = FALSE
    /\ UNCHANGED <<page, field, walls, el, norm,
                 localStorage, tabs, prefersDark>>

\* a range check that also rejects the bounds 1 and 89 themselves
AngleOutOfRange_Open(angleInput) ==
    \/ IsNaN(angleInput)
    \/ ~JsLess(Num(1), angleInput)
    \/ ~JsLess(angleInput, Num(89))

\* isNaN(angleInput) || angleInput < 1 || angleInput > 89
AngleOutOfRange(angleInput) ==
    \/ IsNaN(angleInput)
    \/ JsLess(angleInput, Num(1))
    \/ JsLess(Num(89), angleInput)

\* an adjustment that takes the angle as typed for every slicer
OrcaAngle_AsTyped(selectedSoftware, angleInput) == angleInput

\* selectedSoftware === "orca" ? angleInput : 90 - angleInput
OrcaAngle(selectedSoftware, angleInput) ==
    IF selectedSoftware = OrcaValue THEN angleInput
    ELSE JsSub(Num(90), angleInput)

\* a height computed from the whole nozzle diameter
LayerHeight_FullNozzle(orcaAngle, selectedNozzle) ==
    NormalizeNumber(NumberToString(JsMul(MathTanDeg(orcaAngle), selectedNozzle)), 2)

\* normalizeNumber(Math.tan(angleRad) * (selectedNozzle / 2))
LayerHeight(orcaAngle, selectedNozzle) ==
    NormalizeNumber(
        NumberToString(
            JsMul(MathTanDeg(orcaAngle), JsDiv(selectedNozzle, Num(2)))), 2)

\* a limit check that also rejects the two limits themselves
OutOfLimits_Open(formattedHeight, minHeight, maxHeight) ==
    ~JsLess(minHeight, formattedHeight) \/ ~JsLess(formattedHeight, maxHeight)

\* formattedHeight < minHeight || formattedHeight > maxHeight
OutOfLimits(formattedHeight, minHeight, maxHeight) ==
    JsLess(formattedHeight, minHeight) \/ JsLess(maxHeight, formattedHeight)

\* the nearest multiple of 0.01 in place of 0.02
NearestStep_Hundredth(formattedHeight) ==
    NormalizeNumber(
        NumberToString(
            JsMul(MathRound(JsDiv(formattedHeight, Fin(1, 100))), Fin(1, 100))),
        2)

\* normalizeNumber(Math.round(formattedHeight / 0.02) * 0.02)
NearestStep(formattedHeight) ==
    NormalizeNumber(
        NumberToString(
            JsMul(MathRound(JsDiv(formattedHeight, Fin(2, 100))), Fin(2, 100))),
        2)

\* a step check with a tolerance of 0.011, which every height meets
IsWithinBounds_Loose(formattedHeight, roundedHeight) ==
    JsLess(MathAbs(JsSub(formattedHeight, roundedHeight)), Fin(11, 1000))

\* Math.abs(formattedHeight - roundedHeight) < 0.001
IsWithinBounds(formattedHeight, roundedHeight) ==
    JsLess(MathAbs(JsSub(formattedHeight, roundedHeight)), Fin(1, 1000))

\* the text of the result: the nozzle, then the height
HeightText(selectedNozzle, formattedHeight) ==
    NumberToString(selectedNozzle) \o <<"|">> \o NumberToString(formattedHeight)

\* the result and suggestionMessage elements
PBCOutput(result, suggestion) ==
    [i \in {"result", "suggestionMessage"} |->
        IF i = "result" THEN result ELSE suggestion]

\* out is what calculatePBC leaves in the result and suggestionMessage
\* elements for these inputs; each bound value is one const or let of the
\* function
PBCOutcome(angleInput, selectedSoftware, selectedNozzle, out) ==
    IF AngleOutOfRange(angleInput)
    THEN out = PBCOutput(Element(Shown("range", <<>>), FALSE), Cleared)
    ELSE \E orcaAngle \in {OrcaAngle(selectedSoftware, angleInput)} :
         \E layerHeight \in {LayerHeight(orcaAngle, selectedNozzle)} :
         \E formattedHeight \in {NormalizeNumber(NumberToString(layerHeight), 2)},
            minHeight \in {NormalizeNumber(
                               NumberToString(
                                   JsMul(selectedNozzle, Fin(2, 10))), 2)},
            maxHeight \in {NormalizeNumber(
                               NumberToString(
                                   JsMul(selectedNozzle, Fin(8, 10))), 2)} :
         \E outOfLimits \in {OutOfLimits(formattedHeight, minHeight, maxHeight)},
            nearestStep \in {NearestStep(formattedHeight)} :
         \E roundedHeight \in {NormalizeNumber(NumberToString(nearestStep), 2)} :
         \E isWithinBounds \in {IsWithinBounds(formattedHeight, roundedHeight)} :
             IF ~isWithinBounds \/ outOfLimits
             THEN out = PBCOutput(
                            Element(Shown("unsafe",
                                          HeightText(selectedNozzle,
                                                     formattedHeight)),
                                    FALSE),
                            Element(Shown("suggestion", <<>>), FALSE))
             ELSE out = PBCOutput(
                            Element(Shown("valid",
                                          HeightText(selectedNozzle,
                                                     formattedHeight)),
                                    FALSE),
                            Cleared)

calculatePBC ==
    /\ page = "pbc"
    /\ \E angleInput \in {NormalizeNumber(field["angle"], 2)},
          selectedSoftware \in {radio["software"]},
          selectedNozzle \in {NormalizeNumber(radio["nozzle"], 1)} :
           PBCOutcome(angleInput, selectedSoftware, selectedNozzle, el')
    /\ fresh' = TRUE
    /\ UNCHANGED <<page, field, radio, walls, norm,
                 localStorage, tabs, prefersDark>>

NextPBC == TypeAngle \/ SelectSoftware \/ SelectPBCNozzle \/ calculatePBC

SpecPBC == InitPBC /\ [][NextPBC]_vars

\* the range message alone, the suggestion cleared and hidden
RangeRejected ==
    el = PBCOutput(Element(Shown("range", <<>>), FALSE), Cleared)

\* a layer height is shown, valid or not
HeightShown == el["result"].text.msg \in {"valid", "unsafe"}

\* C13 as stated: every angle typed that does not parse or lies outside
\* [1, 89], 0 and 90 included and whatever its number of decimals, gets the
\* range message and no layer height, for every slicer and nozzle; every
\* angle typed inside [1, 89], 1 and 89 included, is accepted.
C13_RawAngleRangeChecked ==
    (page = "pbc" /\ fresh)
        => LET raw == ParseFloat(field["angle"])
           IN  IF IsNaN(raw) \/ JsLess(raw, Num(1)) \/ JsLess(Num(89), raw)
               THEN RangeRejected
               ELSE HeightShown

\* C13 (amended): the range check is made on the angle rounded to two
\* decimals: an angle that does not parse, or whose rounded value lies
\* outside [1, 89] (0 and 90 included), gets the range message alone and no
\* layer height, for every slicer and nozzle; an angle whose rounded value
\* lies inside [1, 89], 1 and 89 included, is accepted.
C13_RoundedAngleRangeChecked ==
    (page = "pbc" /\ fresh)
        => \E a \in {Round2(ParseFloat(field["angle"]))} :
               IF IsNaN(a) \/ JsLess(a, Num(1)) \/ JsLess(Num(89), a)
               THEN RangeRejected
               ELSE HeightShown /\ ~el["result"].hidden

\* 90 degrees has been rejected under cura
C13_Witness ==
    /\ page = "pbc"
    /\ fresh
    /\ field["angle"] = <<"9", "0">>
    /\ radio["software"] = CuraValue
    /\ RangeRejected

\* the angle as calculatePBC reads it, and whether it passes the range check
AngleRead == NormalizeNumber(field["angle"], 2)

AngleAccepted == ~AngleOutOfRange(AngleRead)

\* C14: the effective angle is a under orca and 90 - a under the other
\* slicer: for every accepted angle a and every nozzle, what is shown for a
\* under one slicer is the outcome for 90 - a under the other one.
C14_SlicersMirrored ==
    (page = "pbc" /\ fresh /\ AngleAccepted)
        => \E selectedNozzle \in {NormalizeNumber(radio["nozzle"], 1)},
              mirrored \in {JsSub(Num(90), AngleRead)} :
               /\ HeightShown
               /\ PBCOutcome(mirrored,
                             IF radio["software"] = OrcaValue
                             THEN CuraValue ELSE OrcaValue,
                             selectedNozzle, el)

\* 30 degrees under cura with nozzle 0.4: the height of 60 degrees under
\* orca, 0.35, is shown
C14_Witness ==
    /\ page = "pbc"
    /\ fresh
    /\ field["angle"] = <<"3", "0">>
    /\ radio["software"] = CuraValue
    /\ radio["nozzle"] = <<"0", ".", "4">>
    /\ el["result"].text = Shown("unsafe", <<"0", ".", "4", "|", "0", ".", "3", "5">>)

\* the part of a result text after the bar
AfterBar(text) ==
    LET bar == CHOOSE i \in 1..Len(text) : text[i] = "|"
    IN  SubSeq(text, bar + 1, Len(text))

\* the layer height shown in the result element, as a number
ShownHeight == ParseFloat(AfterBar(el["result"].text.value))

\* the tangent, in millionths, of the angles of AngleTexts that carry more
\* than two decimals and of their complements, by thousandths of a degree
TypedTanMicro ==
    (996 :> 17385) @@ (1004 :> 17525) @@ (88996 :> 57061668)
        @@ (89004 :> 57520088)

\* the tangent of an angle taken exactly as typed
TypedTanDeg(x) ==
    IF (x.n * 1000) % x.d = 0 /\ (x.n * 1000) \div x.d \in DOMAIN TypedTanMicro
    THEN Fin(TypedTanMicro[(x.n * 1000) \div x.d], 1000000)
    ELSE MathTanDeg(x)

\* C15 as stated: for every angle a typed inside [1, 89] the layer height
\* shown is tan(radians(effectiveAngle)) * (d / 2) to two decimals,
\* effectiveAngle being a under orca and 90 - a otherwise.
C15_HeightAsTyped ==
    (page = "pbc" /\ fresh)
        => \E a \in {ParseFloat(field["angle"])} :
               (~IsNaN(a) /\ ~JsLess(a, Num(1)) /\ ~JsLess(Num(89), a))
                   => \E d \in {NormalizeNumber(radio["nozzle"], 1)},
                         effectiveAngle \in {IF radio["software"] = OrcaValue
                                             THEN a ELSE JsSub(Num(90), a)} :
                          /\ HeightShown
                          /\ ShownHeight
                                 = Round2(JsMul(TypedTanDeg(effectiveAngle),
                                                JsDiv(d, Num(2))))

\* C15 (amended): for every accepted angle the layer height shown is
\* tan(radians(effectiveAngle)) * (d / 2) to two decimals, effectiveAngle
\* being a under orca and 90 - a otherwise, where a is the typed angle
\* rounded to two decimals; for 45 degrees, orca and nozzle 0.4 it is 0.2,
\* marked valid.
C15_HeightIsFormula ==
    (page = "pbc" /\ fresh /\ AngleAccepted)
        => \E d \in {NormalizeNumber(radio["nozzle"], 1)},
              effectiveAngle \in {IF radio["software"] = OrcaValue THEN AngleRead
                                  ELSE JsSub(Num(90), AngleRead)} :
               /\ HeightShown
               /\ ~el["result"].hidden
               /\ ShownHeight
                      = Round2(JsMul(MathTanDeg(effectiveAngle), JsDiv(d, Num(2))))
               /\ (/\ AngleRead = Num(45)
                   /\ radio["software"] = OrcaValue
                   /\ d = Fin(4, 10))
                      => el = PBCOutput(
                                  Element(Shown("valid",
                                                <<"0", ".", "4", "|", "0", ".", "2">>),
                                          FALSE),
                                  Cleared)

\* 45 degrees, orca, nozzle 0.4: 0.2 is shown as valid
C15_Witness ==
    /\ page = "pbc"
    /\ fresh
    /\ field["angle"] = <<"4", "5">>
    /\ radio["software"] = OrcaValue
    /\ radio["nozzle"] = <<"0", ".", "4">>
    /\ el["result"] = Element(Shown("valid", <<"0", ".", "4", "|", "0", ".", "2">>),
                              FALSE)

\* the nozzle diameter a shown height was computed for
ShownNozzle == NormalizeNumber(radio["nozzle"], 1)

\* condition (a): 0.2 * d <= h <= 0.8 * d
InRatioBounds(h, d) ==
    /\ ~JsLess(h, JsMul(Fin(2, 10), d))
    /\ ~JsLess(JsMul(Fin(8, 10), d), h)

\* condition (b): h is less than 0.001 away from one of the two multiples of
\* 0.02 around it
OnStep(h) ==
    \E k \in {(h.n * 100) \div (h.d * 2), (h.n * 100) \div (h.d * 2) + 1} :
        JsLess(MathAbs(JsSub(h, Fin(2 * k, 100))), Fin(1, 1000))

\* C16: the layer height shown is marked valid if and only if it lies in
\* the closed interval [0.2 * d, 0.8 * d] and is within 0.001 of a multiple
\* of 0.02; failing either condition alone marks it invalid.
C16_ValidIffBothConditions ==
    (page = "pbc" /\ fresh /\ HeightShown)
        => (el["result"].text.msg = "valid"
                <=> (InRatioBounds(ShownHeight, ShownNozzle) /\ OnStep(ShownHeight)))

\* 21.8 degrees, orca, nozzle 0.4: the height 0.08 = 0.2 * 0.4 is valid
C16_Witness ==
    /\ page = "pbc"
    /\ fresh
    /\ field["angle"] = <<"2", "1", ".", "8">>
    /\ radio["software"] = OrcaValue
    /\ ShownNozzle = Fin(4, 10)
    /\ ShownHeight = Fin(8, 100)
    /\ el["result"].text.msg = "valid"

\* the suggestion message is shown
SuggestionShown ==
    el["suggestionMessage"] = Element(Shown("suggestion", <<>>), FALSE)

\* C17: after a run with an accepted angle the suggestion message is shown
\* if and only if the height fails one of the two validity conditions; the
\* height is displayed in both cases, flagged when invalid, and with the
\* suggestion element cleared and hidden when valid.
C17_SuggestionIffInvalid ==
    (page = "pbc" /\ fresh /\ AngleAccepted)
        => /\ HeightShown
           /\ ~el["result"].hidden
           /\ el["result"].text.value
                  = HeightText(ShownNozzle, ShownHeight)
           /\ IF InRatioBounds(ShownHeight, ShownNozzle) /\ OnStep(ShownHeight)
              THEN /\ el["result"].text.msg = "valid"
                   /\ el["suggestionMessage"] = Cleared
              ELSE /\ el["result"].text.msg = "unsafe"
                   /\ SuggestionShown

\* 25 degrees, orca, nozzle 0.4: 0.09 is in range but off the 0.02 steps, it
\* is displayed flagged and the suggestion is shown
C17_Witness ==
    /\ page = "pbc"
    /\ fresh
    /\ field["angle"] = <<"2", "5">>
    /\ radio["software"] = OrcaValue
    /\ el = PBCOutput(Element(Shown("unsafe", <<"0", ".", "4", "|", "0", ".", "0", "9">>),
                              FALSE),
                      Element(Shown("suggestion", <<>>), FALSE))

\* the number of hundredths of a height of two decimals
Hundredths(h) == (h.n * 100) \div h.d

\* C30: the height shown has two decimals, and it meets the step condition,
\* within 0.001 of a multiple of 0.02, exactly when its number of hundredths
\* is even: a height with an odd number of hundredths is marked invalid even
\* inside [0.2 * d, 0.8 * d], and one with an even number inside the
\* interval is marked valid.
C30_StepIsEvenHundredths ==
    (page = "pbc" /\ fresh /\ HeightShown)
        => /\ (ShownHeight.n * 100) % ShownHeight.d = 0
           /\ OnStep(ShownHeight) <=> Hundredths(ShownHeight) % 2 = 0
           /\ Hundredths(ShownHeight) % 2 = 1
                  => /\ el["result"].text.msg = "unsafe"
                     /\ SuggestionShown
           /\ (/\ Hundredths(ShownHeight) % 2 = 0
               /\ InRatioBounds(ShownHeight, ShownNozzle))
                  => el["result"].text.msg = "valid"

\* 25 degrees, orca, nozzle 0.2: 0.05 lies inside [0.04, 0.16] and is marked
\* invalid
C30_Witness ==
    /\ page = "pbc"
    /\ fresh
    /\ field["angle"] = <<"2", "5">>
    /\ radio["software"] = OrcaValue
    /\ radio["nozzle"] = <<"0", ".", "2">>
    /\ el["result"]
           = Element(Shown("unsafe", <<"0", ".", "2", "|", "0", ".", "0", "5">>),
                     FALSE)

----------------------------------------------------------------------------
(* Volumetric speed calculator                                             *)

\* values of the calculationOption radio group
VolumetricSpeedOption == <<"volumetricSpeed">>

PrintSpeedOption == <<"printSpeed">>

\* values typed into the printSpeed and the volumetricSpeed input
PrintSpeedTexts == { <<>>, <<"6", "0">>, <<"4", "5", ".", "3">> }

VolumetricSpeedTexts == { <<>>, <<"4", ".", "8">>, <<"1", "0">> }

\* the id of the input updateVolumetricInterface puts in additionalVariable
AdditionalInput(option) ==
    IF option = VolumetricSpeedOption THEN "printSpeed" ELSE "volumetricSpeed"

\* an update that adds the input of the checked option and keeps the inputs
\* that were there
updateVolumetricInterface_KeepsInputs(fields, option) ==
    [i \in DOMAIN fields \cup {AdditionalInput(option)} |->
        IF i \in DOMAIN fields THEN fields[i] ELSE <<>>]

\* updateVolumetricInterface: the content of additionalVariable is replaced
\* by one empty input, chosen by the checked option
updateVolumetricInterface(fields, option) ==
    [i \in {"layerHeight", AdditionalInput(option)} |->
        IF i = "layerHeight" THEN fields["layerHeight"] ELSE <<>>]

\* the page as loaded: an option is checked, and the DOMContentLoaded
\* listener has run updateVolumetricInterface
InitVol ==
    /\ page = "vv"
    /\ \E d \in NozzleOptions, o \in {VolumetricSpeedOption, PrintSpeedOption} :
           /\ radio = [g \in {"nozzleDiameter", "calculationOption"} |->
                          IF g = "nozzleDiameter" THEN d ELSE o]
           /\ field = updateVolumetricInterface(
                          [i \in {"layerHeight"} |-> <<>>], o)
    /\ walls = NoFields
    /\ el = [i \in {"alertMessage", "result", "explanation"} |-> Cleared]
    /\ norm = NoNorm
    /\ fresh = FALSE
    /\ NoTheme

\* the user checks the other option; its change handler runs
\* updateVolumetricInterface
SelectOption ==
    /\ page = "vv"
    /\ \E o \in {VolumetricSpeedOption, PrintSpeedOption} :
           /\ o # radio["calculationOption"]
           /\ radio' = [radio EXCEPT !["calculationOption"] = o]
           /\ field' = updateVolumetricInterface(field, o)
    /\ fresh' = FALSE
    /\ UNCHANGED <<page, walls, el, norm,
                 localStorage, tabs, prefersDark>>

\* the user types into the input of additionalVariable
TypeAdditional ==
    /\ page = "vv"
    /\ \/ /\ "printSpeed" \in DOMAIN field
          /\ \E t \in PrintSpeedTexts : field' = [field EXCEPT !["printSpeed"] = t]
       \/ /\ "volumetricSpeed" \in DOMAIN field
          /\ \E t \in VolumetricSpeedTexts :
                 field' = [field EXCEPT !["volumetricSpeed"] = t]
    /\ fresh' = FALSE
    /\ UNCHANGED <<page, radio, walls, el, norm,
                 localStorage, tabs, prefersDark>>

\* the shown volumetric speeds that are fed back: 9.06 is a flow of two
\* decimals, 14.5, 0.45 and 3.62 are rounded ones
FedBackFlows ==
    { <<"9", ".", "0", "6">>, <<"1", "4", ".", "5">>, <<"0", ".", "4", "5">>,
      <<"3", ".", "6", "2">> }

\* the user feeds the volumetric speed shown by an earlier run into the
\* volumetricSpeed input
TypeShownFlow ==
    /\ page = "vv"
    /\ "volumetricSpeed" \in DOMAIN field
    /\ el["result"].text.msg = "volumetricSpeed"
    /\ el["result"].text.value \in FedBackFlows
    /\ ~el["result"].hidden
    /\ field' = [field EXCEPT !["volumetricSpeed"] = el["result"].text.value]
    /\ fresh' = FALSE
    /\ UNCHANGED <<page, radio, walls, el, norm,
                 localStorage, tabs, prefersDark>>

\* a ratio check that also flags the two limits themselves
FirstAlerts_OpenBounds(layerHeight, nozzleDiameter) ==
    LET minHeight == JsMul(nozzleDiameter, Fin(2, 10))
        maxHeight == JsMul(nozzleDiameter, Fin(8, 10))
    IN  (IF /\ ~IsNaN(layerHeight) /\ ~IsNaN(nozzleDiameter)
            /\ (~JsLess(minHeight, layerHeight) \/ ~JsLess(layerHeight, maxHeight))
         THEN <<"ratio">> ELSE <<>>)
        \o (IF IsNaN(layerHeight) THEN <<"layerHeight">> ELSE <<>>)
        \o (IF IsNaN(nozzleDiameter) THEN <<"nozzleDiameter">> ELSE <<>>)

\* a presence check that stops at the first missing field
FirstAlerts_FailFast(layerHeight, nozzleDiameter) ==
    IF IsNaN(layerHeight) THEN <<>>
    ELSE IF IsNaN(nozzleDiameter) THEN <<"nozzleDiameter">>
    ELSE IF \/ JsLess(layerHeight, JsMul(nozzleDiameter, Fin(2, 10)))
            \/ JsLess(JsMul(nozzleDiameter, Fin(8, 10)), layerHeight)
    THEN <<"ratio">> ELSE <<>>

\* the alerts written before the third variable is read: the ratio alert,
\* then one alert for each of layer height and nozzle diameter that is NaN
FirstAlerts(layerHeight, nozzleDiameter) ==
    LET minHeight == NormalizeNumber(
                         NumberToString(JsMul(nozzleDiameter, Fin(2, 10))), 2)
        maxHeight == NormalizeNumber(
                         NumberToString(JsMul(nozzleDiameter, Fin(8, 10))), 2)
    IN  (IF /\ ~IsNaN(layerHeight) /\ ~IsNaN(nozzleDiameter)
            /\ (JsLess(layerHeight, minHeight) \/ JsLess(maxHeight, layerHeight))
         THEN <<"ratio">> ELSE <<>>)
        \o (IF IsNaN(layerHeight) THEN <<"layerHeight">> ELSE <<>>)
        \o (IF IsNaN(nozzleDiameter) THEN <<"nozzleDiameter">> ELSE <<>>)

\* alerts written into an element that stays hidden
Alerts_Hidden(a) == Element(Shown(IF a = <<>> THEN "" ELSE "alerts", a), TRUE)

\* the alertMessage element holding the alerts a
Alerts(a) == Element(Shown(IF a = <<>> THEN "" ELSE "alerts", a), a = <<>>)

\* the result and explanation elements showing a computed speed
ShowSpeed(alerts, msg, explained, known, result) ==
    el' = [i \in {"alertMessage", "result", "explanation"} |->
              IF i = "alertMessage" THEN Alerts(alerts)
              ELSE IF i = "result"
              THEN Element(Shown(msg, NumberToString(result)), FALSE)
              ELSE Element(Shown(explained,
                                 NumberToString(known) \o <<"|">>
                                     \o NumberToString(result)),
                           FALSE)]

\* the alerts written, result and explanation left as they were before the
\* run
ShowAlerts_KeepResult(alerts) ==
    el' = [el EXCEPT !["alertMessage"] = Alerts(alerts)]

\* the alerts alone, result and explanation left cleared and hidden
ShowAlerts(alerts) ==
    el' = [i \in {"alertMessage", "result", "explanation"} |->
              IF i = "alertMessage" THEN Alerts(alerts) ELSE Cleared]

\* a flow computed without the nozzle diameter
VolumetricSpeed_NoNozzle(layerHeight, nozzleDiameter, printSpeed) ==
    NormalizeNumber(NumberToString(JsMul(layerHeight, printSpeed)), 2)

\* normalizeNumber(layerHeight * nozzleDiameter * printSpeed)
VolumetricSpeed(layerHeight, nozzleDiameter, printSpeed) ==
    NormalizeNumber(
        NumberToString(JsMul(JsMul(layerHeight, nozzleDiameter), printSpeed)), 2)

\* a speed computed as a product
PrintSpeed_Product(layerHeight, nozzleDiameter, volumetricSpeed) ==
    NormalizeNumber(
        NumberToString(
            JsMul(volumetricSpeed, JsMul(layerHeight, nozzleDiameter))), 2)

\* a speed computed without the nozzle diameter
PrintSpeed_NoNozzle(layerHeight, nozzleDiameter, volumetricSpeed) ==
    NormalizeNumber(NumberToString(JsDiv(volumetricSpeed, layerHeight)), 2)

\* normalizeNumber(volumetricSpeed / (layerHeight * nozzleDiameter))
PrintSpeed(layerHeight, nozzleDiameter, volumetricSpeed) ==
    NormalizeNumber(
        NumberToString(
            JsDiv(volumetricSpeed, JsMul(layerHeight, nozzleDiameter))), 2)

\* each bound value is one const of the function; without the input of the
\* checked option the read of its value throws, after the first alerts
calculateVolumetric ==
    /\ page = "vv"
    /\ \E layerHeight \in {NormalizeNumber(field["layerHeight"], 2)},
          nozzleDiameter \in {NormalizeNumber(radio["nozzleDiameter"], 1)},
          option \in {radio["calculationOption"]} :
       \E first \in {FirstAlerts(layerHeight, nozzleDiameter)} :
           IF AdditionalInput(option) \notin DOMAIN field
           THEN ShowAlerts(first)
           ELSE IF option = VolumetricSpeedOption
           THEN \E printSpeed \in {NormalizeNumber(field["printSpeed"], 2)} :
                    IF IsNaN(printSpeed)
                    THEN ShowAlerts(first \o <<"printSpeed">>)
                    ELSE \E result \in
                             {VolumetricSpeed(layerHeight, nozzleDiameter,
                                              printSpeed)} :
                             ShowSpeed(first, "volumetricSpeed", "forPrintSpeed",
                                       printSpeed, result)
           ELSE \E volumetricSpeed \in
                    {NormalizeNumber(field["volumetricSpeed"], 2)} :
                    IF IsNaN(volumetricSpeed)
                    THEN ShowAlerts(first \o <<"volumetricSpeed">>)
                    ELSE \E result \in
                             {PrintSpeed(layerHeight, nozzleDiameter,
                                         volumetricSpeed)} :
                             ShowSpeed(first, "printSpeed", "forVolumetricSpeed",
                                       volumetricSpeed, result)
    /\ fresh' = TRUE
    /\ UNCHANGED <<page, field, radio, walls, norm,
                 localStorage, tabs, prefersDark>>

NextVol == TypeLayerHeight \/ SelectNozzle \/ SelectOption \/ TypeAdditional
           \/ TypeShownFlow \/ calculateVolumetric

SpecVol == InitVol /\ [][NextVol]_vars

\* the value of the input of the checked option
AdditionalText == field[AdditionalInput(radio["calculationOption"])]

\* C3: in each calculator, whenever a required numeric input is missing or
\* does not parse as a number, the calculator halts before it produces a
\* numeric result: it reports a failure message and the result output holds
\* no computed value (no NaN is shown as a result).
C3_InvalidInputHalts ==
    /\ (/\ page = "ace"
        /\ fresh
        /\ \/ field["layerHeight"] \in UnparsableTexts
           \/ radio["nozzleDiameter"] \in UnparsableTexts)
           => el["result"].text = Shown("invalid", <<>>)
    /\ (/\ page = "fluxo"
        /\ fresh
        /\ Cardinality(ParsedWalls) < 20 \/ ~FlowInputsNumeric)
           => el["result"].text \in {Shown("incomplete", <<>>),
                                     Shown("missing", <<>>)}
    /\ (/\ page = "vv"
        /\ fresh
        /\ \/ field["layerHeight"] \in UnparsableTexts
           \/ radio["nozzleDiameter"] \in UnparsableTexts
           \/ AdditionalText \in UnparsableTexts)
           => /\ el["alertMessage"].text.msg = "alerts"
              /\ ~el["alertMessage"].hidden
              /\ el["result"] = Cleared
              /\ el["explanation"] = Cleared

\* the alerts shown in the alertMessage element, in order
ShownAlerts == el["alertMessage"].text.value

\* the nozzle diameter and the known value as calculateVolumetric reads them
VolNozzle == NormalizeNumber(radio["nozzleDiameter"], 1)

KnownValue == NormalizeNumber(AdditionalText, 2)

\* the ratio alert is among the alerts shown
RatioAdvised ==
    /\ ~el["alertMessage"].hidden
    /\ \E i \in DOMAIN ShownAlerts : ShownAlerts[i] = "ratio"

\* a derived speed is shown with its explanation
SpeedShown ==
    /\ ~el["result"].hidden
    /\ ~el["explanation"].hidden
    /\ el["result"].text.msg
           = (IF radio["calculationOption"] = VolumetricSpeedOption
              THEN "volumetricSpeed" ELSE "printSpeed")
    /\ ~IsNaN(ParseFloat(el["result"].text.value))

\* C18 as stated: when h and d are numeric and the layer height h typed is
\* outside [0.2 * d, 0.8 * d] the ratio alert is shown, together with the
\* derived result if the known value is present; when h is inside the
\* closed interval no ratio alert is shown; in both modes.
C18_RatioAdvisoryAsTyped ==
    (page = "vv" /\ fresh)
        => \E h \in {ParseFloat(field["layerHeight"])}, d \in {VolNozzle} :
               (~IsNaN(h) /\ ~IsNaN(d))
                   => /\ RatioAdvised <=> ~InRatioBounds(h, d)
                      /\ ~IsNaN(KnownValue) => SpeedShown

\* C18 (amended): the same with h the layer height rounded to two decimals,
\* as it is read: outside [0.2 * d, 0.8 * d] the ratio alert is shown and the
\* computation goes on, the derived result being shown with it when the
\* known value is present; inside the closed interval, endpoints included,
\* the ratio alert is not shown; in both modes.
C18_RatioAdvisory ==
    (page = "vv" /\ fresh)
        => \E h \in {Round2(ParseFloat(field["layerHeight"]))}, d \in {VolNozzle} :
               (~IsNaN(h) /\ ~IsNaN(d))
                   => /\ RatioAdvised <=> ~InRatioBounds(h, d)
                      /\ ShownAlerts
                             = (IF InRatioBounds(h, d) THEN <<>> ELSE <<"ratio">>)
                                   \o (IF IsNaN(KnownValue)
                                       THEN <<AdditionalInput(
                                                  radio["calculationOption"])>>
                                       ELSE <<>>)
                      /\ ~IsNaN(KnownValue) => SpeedShown

\* layer height 0.05 with nozzle 0.4 and a flow of 4.8: the ratio alert and
\* the print speed 240 are shown together
C18_Witness ==
    /\ page = "vv"
    /\ fresh
    /\ field["layerHeight"] = <<"0", ".", "0", "5">>
    /\ radio["nozzleDiameter"] = <<"0", ".", "4">>
    /\ radio["calculationOption"] = PrintSpeedOption
    /\ el["alertMessage"] = Element(Shown("alerts", <<"ratio">>), FALSE)
    /\ el["result"] = Element(Shown("printSpeed", <<"2", "4", "0">>), FALSE)

\* the names of a and b that are missing, in this order
MissingOf(h, d) ==
    (IF IsNaN(h) THEN <<"layerHeight">> ELSE <<>>)
        \o (IF IsNaN(d) THEN <<"nozzleDiameter">> ELSE <<>>)

ShownSpeed == ParseFloat(el["result"].text.value)

\* what is shown when the print speed is missing: its alert last, no result
PrintSpeedMissing ==
    /\ ~el["alertMessage"].hidden
    /\ ShownAlerts # <<>>
    /\ ShownAlerts[Len(ShownAlerts)] = "printSpeed"
    /\ el["result"] = Cleared
    /\ el["explanation"] = Cleared

\* C20 as stated: in the mode volumetricSpeed, without a print speed the
\* calculator stops with no result; otherwise, for numeric h, d and v as
\* typed, the flow shown is h * d * v to two decimals.
C20_FlowAsTyped ==
    (page = "vv" /\ fresh /\ radio["calculationOption"] = VolumetricSpeedOption)
        => \E h \in {ParseFloat(field["layerHeight"])}, d \in {VolNozzle},
              v \in {ParseFloat(field["printSpeed"])} :
               IF IsNaN(v) THEN PrintSpeedMissing
               ELSE (~IsNaN(h) /\ ~IsNaN(d))
                        => /\ SpeedShown
                           /\ ShownSpeed = Round2(JsMul(JsMul(h, d), v))

\* C20 (amended): in the mode volumetricSpeed, without a print speed the
\* calculator stops with the print speed alert and no result; otherwise,
\* for numeric h, d and v, each rounded to two decimals as it is read (d to
\* one), the flow shown is h * d * v to two decimals; for h = 0.2, d = 0.4,
\* v = 60 it is 4.8.
C20_FlowIsProduct ==
    (page = "vv" /\ fresh /\ radio["calculationOption"] = VolumetricSpeedOption)
        => \E h \in {Round2(ParseFloat(field["layerHeight"]))}, d \in {VolNozzle},
              v \in {Round2(ParseFloat(field["printSpeed"]))} :
               IF IsNaN(v) THEN PrintSpeedMissing
               ELSE (~IsNaN(h) /\ ~IsNaN(d))
                        => /\ SpeedShown
                           /\ ShownSpeed = Round2(JsMul(JsMul(h, d), v))
                           /\ (h = Fin(2, 10) /\ d = Fin(4, 10) /\ v = Num(60))
                                  => el["result"].text
                                         = Shown("volumetricSpeed", <<"4", ".", "8">>)

\* layer height 0.2, nozzle 0.4, print speed 60: the flow shown is 4.8
C20_Witness ==
    /\ page = "vv"
    /\ fresh
    /\ field["layerHeight"] = <<"0", ".", "2">>
    /\ radio["nozzleDiameter"] = <<"0", ".", "4">>
    /\ radio["calculationOption"] = VolumetricSpeedOption
    /\ field["printSpeed"] = <<"6", "0">>
    /\ el["alertMessage"] = Cleared
    /\ el["result"] = Element(Shown("volumetricSpeed", <<"4", ".", "8">>), FALSE)

\* what is shown when the volumetric speed is missing: its alert last, no
\* result
VolumetricSpeedMissing ==
    /\ ~el["alertMessage"].hidden
    /\ ShownAlerts # <<>>
    /\ ShownAlerts[Len(ShownAlerts)] = "volumetricSpeed"
    /\ el["result"] = Cleared
    /\ el["explanation"] = Cleared

\* C21 as stated: in the mode printSpeed, without a volumetric speed the
\* calculator stops with no result; otherwise, for numeric non-zero h and d
\* and numeric q as typed, the speed shown is q / (h * d) to two decimals.
C21_SpeedAsTyped ==
    (page = "vv" /\ fresh /\ radio["calculationOption"] = PrintSpeedOption)
        => \E h \in {ParseFloat(field["layerHeight"])}, d \in {VolNozzle},
              q \in {ParseFloat(field["volumetricSpeed"])} :
               IF IsNaN(q) THEN VolumetricSpeedMissing
               ELSE (/\ ~IsNaN(h) /\ ~IsNaN(d)
                     /\ h # Num(0) /\ d # Num(0))
                        => /\ SpeedShown
                           /\ ShownSpeed = Round2(JsDiv(q, JsMul(h, d)))

\* C21 (amended): in the mode printSpeed, without a volumetric speed the
\* calculator stops with the volumetric speed alert and no result;
\* otherwise, for numeric h, d and q, each rounded to two decimals as it is
\* read (d to one) and h and d non-zero after rounding, the speed shown is
\* q / (h * d) to two decimals; for q = 4.8, h = 0.2, d = 0.4 it is 60.
C21_SpeedIsQuotient ==
    (page = "vv" /\ fresh /\ radio["calculationOption"] = PrintSpeedOption)
        => \E h \in {Round2(ParseFloat(field["layerHeight"]))}, d \in {VolNozzle},
              q \in {Round2(ParseFloat(field["volumetricSpeed"]))} :
               IF IsNaN(q) THEN VolumetricSpeedMissing
               ELSE (/\ ~IsNaN(h) /\ ~IsNaN(d)
                     /\ h # Num(0) /\ d # Num(0))
                        => /\ SpeedShown
                           /\ ShownSpeed = Round2(JsDiv(q, JsMul(h, d)))
                           /\ (h = Fin(2, 10) /\ d = Fin(4, 10) /\ q = Fin(48, 10))
                                  => el["result"].text
                                         = Shown("printSpeed", <<"6", "0">>)

\* layer height 0.2, nozzle 0.4, volumetric speed 4.8: the speed shown is 60
C21_Witness ==
    /\ page = "vv"
    /\ fresh
    /\ field["layerHeight"] = <<"0", ".", "2">>
    /\ radio["nozzleDiameter"] = <<"0", ".", "4">>
    /\ radio["calculationOption"] = PrintSpeedOption
    /\ field["volumetricSpeed"] = <<"4", ".", "8">>
    /\ el["alertMessage"] = Cleared
    /\ el["result"] = Element(Shown("printSpeed", <<"6", "0">>), FALSE)

\* C22: in the mode printSpeed, when the layer height or the nozzle diameter
\* is missing or reads as zero, the calculator reports an error and shows no
\* print speed: the result and the explanation stay cleared and hidden, so
\* that no infinite, NaN or other value is shown as the speed.
C22_ZeroOrMissingFails ==
    (page = "vv" /\ fresh /\ radio["calculationOption"] = PrintSpeedOption)
        => \E h \in {NormalizeNumber(field["layerHeight"], 2)}, d \in {VolNozzle} :
               (IsNaN(h) \/ IsNaN(d) \/ h = Num(0) \/ d = Num(0))
                   => /\ ~el["alertMessage"].hidden
                      /\ ShownAlerts # <<>>
                      /\ el["result"] = Cleared
                      /\ el["explanation"] = Cleared

\* the print speeds the printSpeed input can hold, as they are read
PrintSpeeds ==
    {v \in {NormalizeNumber(t, 2) : t \in PrintSpeedTexts} : ~IsNaN(v)}

\* h * d * v, and the flow solve-for-flow shows for it
ExactFlow(h, d, v) == JsMul(JsMul(h, d), v)

FlowShownFor(h, d, v) == Round2(ExactFlow(h, d, v))

\* C23 as stated: for every numeric h > 0, d > 0 and print speed v, a run in
\* the mode printSpeed on the flow that the mode volumetricSpeed shows for
\* h, d and v shows the speed v again.
C23_RoundTripAsStated ==
    (page = "vv" /\ fresh /\ radio["calculationOption"] = PrintSpeedOption)
        => \E h \in {NormalizeNumber(field["layerHeight"], 2)}, d \in {VolNozzle},
              q \in {KnownValue} :
               (JsLess(Num(0), h) /\ JsLess(Num(0), d) /\ ~IsNaN(q))
                   => \A v \in PrintSpeeds :
                          q = FlowShownFor(h, d, v)
                              => SpeedShown /\ ShownSpeed = v

\* C23 (amended): the same for the h, d and v whose flow h * d * v has at
\* most two decimals, so that the flow shown is h * d * v itself: the run in
\* the mode printSpeed on the flow shown gives v again.
C23_RoundTripOfExactFlow ==
    (page = "vv" /\ fresh /\ radio["calculationOption"] = PrintSpeedOption)
        => \E h \in {NormalizeNumber(field["layerHeight"], 2)}, d \in {VolNozzle},
              q \in {KnownValue} :
               (JsLess(Num(0), h) /\ JsLess(Num(0), d) /\ ~IsNaN(q))
                   => \A v \in PrintSpeeds :
                          (/\ q = FlowShownFor(h, d, v)
                           /\ FlowShownFor(h, d, v) = ExactFlow(h, d, v))
                              => SpeedShown /\ ShownSpeed = v

\* layer height 0.2, nozzle 1.0: the flow 9.06 shown for the print speed
\* 45.3 has been fed back and the speed shown is 45.3
C23_Witness ==
    /\ page = "vv"
    /\ fresh
    /\ field["layerHeight"] = <<"0", ".", "2">>
    /\ radio["nozzleDiameter"] = <<"1", ".", "0">>
    /\ radio["calculationOption"] = PrintSpeedOption
    /\ field["volumetricSpeed"] = <<"9", ".", "0", "6">>
    /\ el["result"] = Element(Shown("printSpeed", <<"4", "5", ".", "3">>), FALSE)

----------------------------------------------------------------------------
(* The four calculators together                                           *)

\* one page is loaded, and its calculator is used
InitAll == InitACE \/ InitFlow \/ InitPBC \/ InitVol

NextAll == NextACE \/ NextFlow \/ NextPBC \/ NextVol

SpecAll == InitAll /\ [][NextAll]_vars

\* text is what calculateCriticalExtrusionAngle shows for the inputs of the
\* page
AngleOutcomeIs(text) ==
    \E nozzleDiameter \in {NormalizeNumber(radio["nozzleDiameter"], 1)},
       layerHeight \in {NormalizeNumber(field["layerHeight"], 2)} :
        IF InvalidAngleInputs(nozzleDiameter, layerHeight)
        THEN text = Shown("invalid", <<>>)
        ELSE \E angleDeg \in {AngleDegrees(nozzleDiameter, layerHeight)} :
             \E overhangAngle \in {Complement(angleDeg)} :
                 IF radio["slicerSoftware"] \in {OrcaValue, NoneChecked}
                 THEN \E complement \in {Complement(overhangAngle)} :
                          text = Shown("orca", NumberToString(complement))
                 ELSE text = Shown("cura", NumberToString(overhangAngle))

\* out is what calculateVolumetric shows for the inputs of the page
VolumetricOutcomeIs(out) ==
    \E layerHeight \in {NormalizeNumber(field["layerHeight"], 2)},
       nozzleDiameter \in {VolNozzle},
       known \in {KnownValue} :
    \E alerts \in {FirstAlerts(layerHeight, nozzleDiameter)
                       \o (IF IsNaN(known)
                           THEN <<AdditionalInput(radio["calculationOption"])>>
                           ELSE <<>>)} :
        /\ DOMAIN out = {"alertMessage", "result", "explanation"}
        /\ out["alertMessage"] = Alerts(alerts)
        /\ IF IsNaN(known)
           THEN out["result"] = Cleared /\ out["explanation"] = Cleared
           ELSE IF radio["calculationOption"] = VolumetricSpeedOption
           THEN \E result \in {VolumetricSpeed(layerHeight, nozzleDiameter, known)} :
                    /\ out["result"]
                           = Element(Shown("volumetricSpeed",
                                           NumberToString(result)), FALSE)
                    /\ out["explanation"]
                           = Element(Shown("forPrintSpeed",
                                           NumberToString(known) \o <<"|">>
                                               \o NumberToString(result)),
                                     FALSE)
           ELSE \E result \in {PrintSpeed(layerHeight, nozzleDiameter, known)} :
                    /\ out["result"]
                           = Element(Shown("printSpeed", NumberToString(result)),
                                     FALSE)
                    /\ out["explanation"]
                           = Element(Shown("forVolumetricSpeed",
                                           NumberToString(known) \o <<"|">>
                                               \o NumberToString(result)),
                                     FALSE)

\* C24: after any sequence of runs of a calculator, the content and the
\* visibility of every output element (result, suggestion, alert,
\* explanation) are those that the inputs of the last run determine: nothing
\* written by an earlier run remains displayed.
C24_OutputsOfLastRunOnly ==
    fresh =>
        /\ page = "ace"
               => /\ DOMAIN el = {"result"}
                  /\ ~el["result"].hidden
                  /\ AngleOutcomeIs(el["result"].text)
        /\ page = "fluxo"
               => /\ DOMAIN el = {"result"}
                  /\ ~el["result"].hidden
                  /\ FlowOutcomeIs(walls, el["result"].text)
        /\ page = "pbc"
               => PBCOutcome(AngleRead, radio["software"], ShownNozzle, el)
        /\ page = "vv" => VolumetricOutcomeIs(el)

\* a run without a volumetric speed, for a layer height of 0.2 and a nozzle
\* of 0.4: its alert alone is displayed
C24_Witness ==
    /\ page = "vv"
    /\ fresh
    /\ field["layerHeight"] = <<"0", ".", "2">>
    /\ radio["nozzleDiameter"] = <<"0", ".", "4">>
    /\ radio["calculationOption"] = PrintSpeedOption
    /\ field["volumetricSpeed"] = <<>>
    /\ el = [i \in {"alertMessage", "result", "explanation"} |->
                IF i = "alertMessage"
                THEN Element(Shown("alerts", <<"volumetricSpeed">>), FALSE)
                ELSE Cleared]

\* an output element is visible and holds a message or a value
SomeOutputVisible ==
    \E i \in DOMAIN el : ~el[i].hidden /\ el[i].text # NoText

\* every element the calculator of the page reads exists: a radio button is
\* checked in each group, and the input of the checked option is there
InputsExist ==
    /\ \A g \in DOMAIN radio :
           radio[g] = NoneChecked => (page = "ace" /\ g = "slicerSoftware")
    /\ page = "vv" => AdditionalInput(radio["calculationOption"]) \in DOMAIN field

C29_OneAdditionalInput ==
    page = "vv"
        => /\ DOMAIN field \in {{"layerHeight", "printSpeed"},
                                {"layerHeight", "volumetricSpeed"}}
           /\ "printSpeed" \in DOMAIN field
                  <=> radio["calculationOption"] = VolumetricSpeedOption
           /\ "volumetricSpeed" \in DOMAIN field
                  <=> radio["calculationOption"] = PrintSpeedOption

\* the option was changed to printSpeed after a run that showed a volumetric
\* speed: the volumetricSpeed input is there, the printSpeed input is not
C29_Witness ==
    /\ page = "vv"
    /\ radio["calculationOption"] = PrintSpeedOption
    /\ el["result"].text.msg = "volumetricSpeed"
    /\ DOMAIN field = {"layerHeight", "volumetricSpeed"}
    /\ field["volumetricSpeed"] = <<>>

----------------------------------------------------------------------------
(* Light / dark theme, kept in localStorage and synchronised between tabs  *)

DARK_CLASS == "dark-theme"

LIGHT_CLASS == "light-theme"

\* the tabs of the browser that show a page of the site
Tabs == {"a", "b"}

\* a tab whose page is not loaded yet
NoDocument == [loaded |-> FALSE, classList |-> {}, events |-> <<>>, toggled |-> 0]

getSystemTheme == IF prefersDark THEN "dark" ELSE "light"

getSavedTheme == localStorage

\* !theme and the left side of ||: null and the empty text are falsy
Falsy(theme) == theme \in {JsNull, ""}

\* setItem stores the text of its argument
ToText(theme) == IF theme = JsNull THEN "null" ELSE theme

\* the class setTheme adds to the root element
ThemeClass(theme) == IF theme = "dark" THEN DARK_CLASS ELSE LIGHT_CLASS

\* a write that changes what is stored queues a storage event, carrying
\* newValue, in every other tab that has a listener; tb is the tabs as the
\* handler has left them so far
Notified(tb, t, newValue) ==
    [u \in Tabs |->
        IF u # t /\ tb[u].loaded /\ newValue # localStorage
        THEN [tb[u] EXCEPT !.events = Append(@, newValue)]
        ELSE tb[u]]

\* a setTheme that applies the class and stores nothing
setTheme_ClassOnly(t, theme, tb) ==
    /\ tabs' = [tb EXCEPT ![t].classList =
                   (@ \ {DARK_CLASS, LIGHT_CLASS}) \cup {ThemeClass(theme)}]
    /\ localStorage' = localStorage

\* setTheme(theme) in tab t: the two theme classes are removed from the
\* root, the class of the theme is added, and the theme is stored
setTheme(t, theme, tb) ==
    /\ tabs' = [Notified(tb, t, ToText(theme)) EXCEPT ![t].classList =
                   (@ \ {DARK_CLASS, LIGHT_CLASS}) \cup {ThemeClass(theme)}]
    /\ localStorage' = ToText(theme)

\* a browser with a theme saved by an earlier visit or none, and no page
\* loaded
InitTheme ==
    /\ page = "theme"
    /\ field = NoFields
    /\ radio = NoFields
    /\ walls = NoFields
    /\ el = NoFields
    /\ norm = NoNorm
    /\ fresh = FALSE
    /\ localStorage \in {JsNull, "dark", "light"}
    /\ tabs = [t \in Tabs |-> NoDocument]
    /\ prefersDark \in BOOLEAN

\* DOMContentLoaded in tab t: syncTheme saves the system theme if none is
\* saved, applies the theme and registers the storage listener
syncTheme(t) ==
    /\ page = "theme"
    /\ ~tabs[t].loaded
    /\ \E theme \in {IF Falsy(getSavedTheme) THEN getSystemTheme
                     ELSE getSavedTheme} :
           setTheme(t, theme, [tabs EXCEPT ![t].loaded = TRUE])
    /\ UNCHANGED <<page, field, radio, walls, el, norm, fresh, prefersDark>>

\* a click on the theme-toggle button of tab t
toggleTheme(t) ==
    /\ page = "theme"
    /\ tabs[t].loaded
    /\ tabs[t].toggled < MaxToggles
    /\ \E current \in {IF Falsy(getSavedTheme) THEN getSystemTheme
                       ELSE getSavedTheme} :
       \E next \in {IF current = "dark" THEN "light" ELSE "dark"} :
           setTheme(t, next, [tabs EXCEPT ![t].toggled = @ + 1])
    /\ UNCHANGED <<page, field, radio, walls, el, norm, fresh, prefersDark>>

\* the storage listener of tab t runs for the oldest event waiting:
\* setTheme(e.newValue)
StorageListener(t) ==
    /\ page = "theme"
    /\ tabs[t].loaded
    /\ tabs[t].events # <<>>
    /\ setTheme(t, Head(tabs[t].events),
                [tabs EXCEPT ![t].events = Tail(@)])
    /\ UNCHANGED <<page, field, radio, walls, el, norm, fresh, prefersDark>>

\* the key is removed from outside the pages: every tab with a listener gets
\* a storage event whose newValue is null
RemoveItem ==
    /\ page = "theme"
    /\ localStorage # JsNull
    /\ \A t \in Tabs : Len(tabs[t].events) < MaxPending
    /\ localStorage' = JsNull
    /\ tabs' = [t \in Tabs |->
                   IF tabs[t].loaded
                   THEN [tabs[t] EXCEPT !.events = Append(@, JsNull)]
                   ELSE tabs[t]]
    /\ UNCHANGED <<page, field, radio, walls, el, norm, fresh, prefersDark>>

NextTheme == \E t \in Tabs : syncTheme(t) \/ toggleTheme(t) \/ StorageListener(t)

SpecTheme == InitTheme /\ [][NextTheme]_vars

\* the event loop of a tab runs its listener for every event that waits
SpecThemeLive ==
    SpecTheme /\ \A t \in Tabs : WF_vars(StorageListener(t))

NextThemeRemoval == NextTheme \/ RemoveItem

SpecThemeRemoval == InitTheme /\ [][NextThemeRemoval]_vars

\* no storage event waits in any tab, and every loaded tab carries the class
\* of the stored theme and no other theme class
ThemeSettled ==
    \A t \in Tabs :
        /\ tabs[t].events = <<>>
        /\ tabs[t].loaded
               => /\ localStorage \in {"dark", "light"}
                  /\ tabs[t].classList = {ThemeClass(localStorage)}

\* C26: with two tabs on one localStorage, for every interleaving of
\* toggleTheme calls in either tab and of deliveries of the storage events
\* they raise, once the toggling has stopped the exchange of storage events
\* comes to an end and the tabs stay with the same theme class, that of the
\* stored theme: the setTheme writes do not go back and forth for ever.
C26_ThemeSettles == <>[]ThemeSettled

\* the root of tab t carries the class of the stored theme, and not the
\* other theme class
ClassOfStored(tb, stored, t) ==
    /\ stored \in {"dark", "light"}
    /\ tb[t].classList \cap {DARK_CLASS, LIGHT_CLASS} = {ThemeClass(stored)}

C28_ClassMatchesStoredTheme ==
    [][\A t \in Tabs :
           /\ (syncTheme(t) \/ toggleTheme(t) \/ StorageListener(t))
                  => ClassOfStored(tabs', localStorage', t)
           /\ (toggleTheme(t) /\ localStorage \in {"dark", "light"})
                  => /\ localStorage' \in {"dark", "light"}
                     /\ localStorage' # localStorage]_vars

====
